---------------------------- MODULE Spec2Model ----------------------------
(***************************************************************************)
(* State-machine model of the ioBroker.zigbee adapter core (src/main.js):  *)
(*   - the device_query guard of publishFromState (query_device_block),    *)
(*   - the connection lifecycle (doConnect / tryToReconnect / ready /      *)
(*     disconnect),                                                        *)
(*   - the outbound converter scan of publishFromState,                    *)
(*   - the error classifier filterError,                                   *)
(*   - checkIfModelUpdate for the inbound events of one device,            *)
(*   - sendPayload and the converter write of publishFromState,            *)
(*   - onZigbeeEvent after its model check, with processConverters,        *)
(*   - the resynchronisation of onZigbeeAdapterReady,                      *)
(*   - the read sequence of a device_query.                                *)
(* Each component has its own specification over the shared variables; the *)
(* variables of the other components keep their initial values.            *)
(***************************************************************************)
EXTENDS Integers, Sequences, FiniteSets, TLC

VARIABLES
    \* ---- device_query (publishFromState, option/composite branch)
    query_device_block,   \* this.query_device_block: array of device ids
    getKeys,              \* per device: number of keys of converters with convertGet
    readSeqs,             \* per device: running read sequences (keys still to read)
    cooldownTimers,       \* pending setTimeout(..., 10000) callbacks, in arming order
    queryLog,             \* outcome of the last device_query step
    \* ---- connection lifecycle
    port,                 \* this.config.port: "tcp" (contains tcp://) or "serial"
    phase,                \* "constructed", "configured" once onReady ran,
                          \* "started" once zbController.start() was called,
                          \* "ready" once info.connection was published as true,
                          \* "disconnected" once 'disconnect' arrived in "ready"
    reconnectCounter,     \* this.reconnectCounter
    reconnectTimer,       \* this.reconnectTimer: handle of the last armed timer, 0 = undefined
    timers,               \* pending reconnect timers (handles), in arming order
    connection,           \* state info.connection: "unset", "false", "true"
    callbacks,            \* getForeignObject callbacks of doConnect not yet invoked
    starting,             \* zbController.start() calls in progress
    stopping,             \* disconnect handlers awaiting callPluginMethod('stop')
    readying,             \* ready handlers suspended after their first section
    lastStep,             \* handler that ran last and the log lines it wrote
    \* ---- outbound converter scan (publishFromState)
    toZigbee,             \* mappedModel.toZigbee: converters in declaration order
    stateDesc,            \* changedState.stateDesc: id, prop, setattr
    converter,            \* the scan's variable converter: position in toZigbee, 0 = undefined
    scanPc,               \* "idle" before the scan, "scanned" after
    \* ---- filterError
    error,                \* the error passed to filterError
    errLog,               \* lines filterError wrote to the log
    errSent,              \* messages filterError passed to sendError
    errPc,                \* "idle", then "returned" or "threw"
    \* ---- checkIfModelUpdate (inbound events of one device)
    devObj,               \* the device object: "old" (common.type differs from the
                          \* resolved model), "none" (deleted), "new" (type is the model)
    stateTree,            \* state entries of the device: 1..NumStates are the prior
                          \* ones, NewEntries stands for those syncDevStates creates
    evPc,                 \* per event: position of its onZigbeeEvent
    evChain,              \* per event: deleteStateAsync promises of its chain still pending
    evFound,              \* per event: what its checkIfModelUpdate found
    \* ---- sendPayload / publishFromState (converter write)
    spArg,                \* the argument of sendPayload; kind "none": no call
    spPc,                 \* "idle", "resolveEntity", "publishFromState", "returned", "threw"
    spResult,             \* the object sendPayload returned
    pfsArgs,              \* deviceId, model, stateModel, stateList of publishFromState
    pfsPc,                \* "idle", "resolveEntity", "returned"
    items,                \* per ChangedState: position of its forEach callback
    writes,               \* convertSet invocations, in order
    acks,                 \* setState(..., ack = true) calls, in order
    resolveCalls,         \* resolveEntity calls, in order
    outLog,               \* error lines logged (and sent to telemetry)
    unhandled,            \* rejections of forEach callbacks, which nothing handles
    hasToZigbee,          \* the mapped model has a toZigbee property
    \* ---- onZigbeeEvent (one inbound event, after its model check)
    type,                 \* the event's type
    cluster,              \* message.cluster
    message,              \* the message: endpoint, data, linkquality
    mapped,               \* entity.mapped
    fromZigbee,           \* mappedModel.fromZigbee: converters in declaration order
    zePromise,            \* the promise onZigbeeEvent returned: "none", "pending",
                          \* "resolved", "rejected"
    converters,           \* the converters selected, as positions in fromZigbee
    convPc,               \* processConverters: "idle", "collectOptions", "done",
                          \* "unresolved", "failed"
    invoked,              \* converters whose convert was invoked, in order
    published,            \* payloads handed to publishToState, in order
    zeLog,                \* debug and error lines of onZigbeeEvent
    failedBefore,         \* a converter threw in an event handled earlier
    \* ---- onZigbeeAdapterReady from the publication of info.connection on
    known,                \* number of devices in the controller's database
    rdyPc,                \* "idle", "setState", "resolveEntity", "pluginStart",
                          \* "done", "rejected"
    rdyDev,               \* position of the loop's device, 0 before the loop
    resync,               \* per device: "none", "noEntity", "updateDev",
                          \* "syncDevStates", "synced", "syncFailed"
    rdyOrder,             \* the steps of the resynchronisation, in order
    \* ---- the read sequence of one device_query
    getList,              \* mappedModel.toZigbee as the read loop sees it
    getPc,                \* "idle", "reading", "done", "threw"
    getAt,                \* converter and key of the convertGet awaited
    getReads,             \* convertGet calls, in order
    getLog,               \* lines the read sequence logged
    getArmed,             \* the cool-down timer of the query was armed
    \* --- the send_payload state (publishFromState, send_payload branch) ---
    ssArgs,               \* deviceId, model and value of the changed send_payload state
    ssPc,                 \* position of the call and of its forEach callback
    ssAcks,               \* acknowledgeState calls for the send_payload state
    ssLog,                \* lines the call logged
    \* --- onUnload ---
    unloadPc,             \* position of onUnload
    unloadCallbacks,      \* calls of onUnload's completion callback
    controllerStops       \* calls of zbController.stop() by onUnload

queryVars == <<query_device_block, getKeys, readSeqs, cooldownTimers, queryLog>>
connVars  == <<port, phase, reconnectCounter, reconnectTimer, timers, connection,
               callbacks, starting, stopping, readying, lastStep>>
scanVars  == <<toZigbee, stateDesc, converter, scanPc>>
errVars   == <<error, errLog, errSent, errPc>>
updVars   == <<devObj, stateTree, evPc, evChain, evFound>>

outVars   == <<spArg, spPc, spResult, pfsArgs, pfsPc, items, writes, acks,
               resolveCalls, outLog, unhandled, hasToZigbee>>

\* the components that follow filterError
evtVars   == <<type, cluster, message, mapped, fromZigbee, zePromise, converters,
               convPc, invoked, published, zeLog, failedBefore>>

rdyVars   == <<known, rdyPc, rdyDev, resync, rdyOrder>>

getVars   == <<getList, getPc, getAt, getReads, getLog, getArmed>>

sendVars  == <<ssArgs, ssPc, ssAcks, ssLog>>

unloadVars == <<unloadPc, unloadCallbacks, controllerStops>>

lateVars  == <<rdyVars, getVars, sendVars, unloadVars>>

restVars  == <<updVars, outVars, evtVars, lateVars>>

earlyVars == <<queryVars, connVars, scanVars, errVars, updVars, outVars, evtVars>>

---------------------------------------------------------------------------
\* Bounds of the model
NumDevices == 2
MaxKeys    == 2
MaxQueries == 3

Devices == 1..NumDevices

\* ======================= device_query ====================================

\* Array.prototype.indexOf: 0-based index of the first occurrence, -1 if absent
IndexOf(arr, x) ==
    IF \E i \in 1..Len(arr) : arr[i] = x
    THEN (CHOOSE i \in 1..Len(arr) : arr[i] = x /\ \A j \in 1..(i-1) : arr[j] # x) - 1
    ELSE -1

\* Array.prototype.splice(start) with no deleteCount: removes every element
\* from index start (0-based) to the end of the array
Splice(arr, start) ==
    SubSeq(arr, 1, start)

\* the 10 s cool-down callback armed at the end of a read sequence
CooldownCallback(block, idToRemove) ==
    LET idx == IndexOf(block, idToRemove)
    IN  IF idx > -1 THEN Splice(block, idx) ELSE block

RECURSIVE SumLen(_, _)
SumLen(f, S) ==
    IF S = {} THEN 0
    ELSE LET d == CHOOSE x \in S : TRUE IN Len(f[d]) + SumLen(f, S \ {d})

\* read sequences in flight plus cool-down timers pending
QueryLoad == SumLen(readSeqs, Devices) + Len(cooldownTimers)

QueryInit ==
    /\ query_device_block = <<>>
    /\ getKeys \in [Devices -> 0..MaxKeys]
    /\ readSeqs = [d \in Devices |-> <<>>]
    /\ cooldownTimers = <<>>
    /\ queryLog = [dev |-> 0, outcome |-> "none"]

\* A ChangedState device_query (isOption/compositeState) for device d reaches
\* the guard: blocked, or pushed and the convertGet loop entered.  With no
\* convertGet key the loop ends in the same turn and the timer is armed.
DeviceQuery(d) ==
    /\ IF IndexOf(query_device_block, d) > -1
       THEN /\ queryLog' = [dev |-> d, outcome |-> "blocked"]
            /\ UNCHANGED <<query_device_block, readSeqs, cooldownTimers>>
       ELSE /\ QueryLoad < MaxQueries
            /\ query_device_block' = Append(query_device_block, d)
            /\ IF getKeys[d] = 0
               THEN /\ cooldownTimers' = Append(cooldownTimers, d)
                    /\ queryLog' = [dev |-> d, outcome |-> "done"]
                    /\ UNCHANGED readSeqs
               ELSE /\ readSeqs' = [readSeqs EXCEPT ![d] = Append(@, getKeys[d])]
                    /\ queryLog' = [dev |-> d, outcome |-> "started"]
                    /\ UNCHANGED cooldownTimers
    /\ UNCHANGED <<getKeys, connVars, scanVars, errVars, restVars>>

RemoveAt(s, i) ==
    SubSeq(s, 1, i-1) \o SubSeq(s, i+1, Len(s))

\* One awaited convertGet of a running read sequence of d returns or throws
\* (a failed read is only logged); the next key is read, or the sequence
\* ends and arms its cool-down timer.
ReadDone(d, i, ok) ==
    /\ i \in 1..Len(readSeqs[d])
    /\ IF readSeqs[d][i] > 1
       THEN /\ readSeqs' = [readSeqs EXCEPT ![d][i] = @ - 1]
            /\ queryLog' = [dev |-> d, outcome |-> IF ok THEN "read" ELSE "readFailed"]
            /\ UNCHANGED cooldownTimers
       ELSE /\ readSeqs' = [readSeqs EXCEPT ![d] = RemoveAt(@, i)]
            /\ cooldownTimers' = Append(cooldownTimers, d)
            /\ queryLog' = [dev |-> d, outcome |-> "done"]
    /\ UNCHANGED <<query_device_block, getKeys, connVars, scanVars, errVars, restVars>>

\* The oldest cool-down timer fires (all have the same delay)
CooldownExpire ==
    /\ cooldownTimers # <<>>
    /\ query_device_block' = CooldownCallback(query_device_block, Head(cooldownTimers))
    /\ cooldownTimers' = Tail(cooldownTimers)
    /\ queryLog' = [dev |-> Head(cooldownTimers), outcome |-> "expired"]
    /\ UNCHANGED <<getKeys, readSeqs, connVars, scanVars, errVars, restVars>>

QueryNext ==
    \/ \E d \in Devices : DeviceQuery(d)
    \/ \E d \in Devices : \E i \in 1..MaxQueries : \E ok \in BOOLEAN : ReadDone(d, i, ok)
    \/ CooldownExpire

\* ======================= connection lifecycle ============================
MaxTimers   == 3
MaxAttempts == 2

RECONNECT_CEILING == 5

\* handle returned by setTimeout: one that no pending timer has
NewTimer(tms) ==
    CHOOSE id \in 1..(Len(tms) + 1) :
        /\ \A i \in 1..Len(tms) : tms[i] # id
        /\ \A j \in 1..(id - 1) : \E i \in 1..Len(tms) : tms[i] = j

RECURSIVE Without(_, _)
Without(tms, id) ==
    IF tms = <<>> THEN <<>>
    ELSE IF Head(tms) = id THEN Without(Tail(tms), id)
    ELSE <<Head(tms)>> \o Without(Tail(tms), id)

\* a ready handler that forgets the timer
ClearTimeout_Mutant(tms, handle) ==
    tms

\* clearTimeout(handle): a fired, cleared or undefined handle is a no-op
ClearTimeout(tms, handle) ==
    Without(tms, handle)

\* tryToReconnect: this.reconnectTimer = setTimeout(..., 10 * 1000)
tryToReconnect(tms, rt) ==
    LET id == NewTimer(tms)
    IN  [timers |-> Append(tms, id), reconnectTimer |-> id]

\* a guard that still retries at zero
AttemptsRemain_Mutant(ctr) ==
    ctr >= 0

\* the guard of doConnect's catch branch
AttemptsRemain(ctr) ==
    ctr > 0

\* doConnect.  throws: the try body (log.info, getForeignObject) throws
\* synchronously and the catch branch runs; otherwise the getForeignObject
\* callback, which awaits zbController.start(), is left pending.
doConnect(throws, ctr, tms, rt, conn, cbs) ==
    IF throws
    THEN LET r == IF AttemptsRemain(ctr) THEN tryToReconnect(tms, rt)
                  ELSE [timers |-> tms, reconnectTimer |-> rt]
         IN  [timers |-> r.timers, reconnectTimer |-> r.reconnectTimer,
              connection |-> "false", callbacks |-> cbs,
              log |-> <<"Starting Adapter", "Failed to start Zigbee">>]
    ELSE [timers |-> tms, reconnectTimer |-> rt, connection |-> conn,
          callbacks |-> cbs + 1, log |-> <<"Starting Adapter">>]

\* the body of the reconnect timer callback before it calls doConnect
ReconnectDecrement(p, ctr) ==
    IF p = "tcp" THEN ctr ELSE ctr - 1

ConnInit ==
    /\ port \in {"tcp", "serial"}
    /\ phase = "constructed"
    /\ reconnectCounter = 0      \* not yet assigned; never read before onReady
    /\ reconnectTimer = 0
    /\ timers = <<>>
    /\ connection = "unset"
    /\ callbacks = 0
    /\ starting = 0
    /\ stopping = 0
    /\ readying = 0
    /\ lastStep = [handler |-> "constructor", log |-> <<>>]

\* onReady: info.connection := false, controller wired, counter := 1,
\* doConnect(); the framework emits 'ready' once and never after 'unload'
onReady(throws) ==
    /\ phase = "constructed"
    /\ unloadPc = "idle"
    /\ LET r == doConnect(throws, 1, timers, reconnectTimer, "false", callbacks)
       IN  /\ phase' = "configured"
           /\ reconnectCounter' = 1
           /\ timers' = r.timers
           /\ reconnectTimer' = r.reconnectTimer
           /\ connection' = r.connection
           /\ callbacks' = r.callbacks
           /\ lastStep' = [handler |-> "onReady", log |-> r.log]
    /\ UNCHANGED <<port, starting, stopping, readying, queryVars, scanVars, errVars, restVars>>

\* the oldest reconnect timer fires (all have the same 10 s delay)
ReconnectTimerFires(throws) ==
    /\ timers # <<>>
    /\ throws \/ callbacks + starting + readying < MaxAttempts
    /\ LET ctr == ReconnectDecrement(port, reconnectCounter)
           r   == doConnect(throws, ctr, Tail(timers), reconnectTimer, connection, callbacks)
       IN  /\ reconnectCounter' = ctr
           /\ timers' = r.timers
           /\ reconnectTimer' = r.reconnectTimer
           /\ connection' = r.connection
           /\ callbacks' = r.callbacks
           /\ lastStep' = [handler |-> "reconnectTimer", log |-> <<"Try to reconnect">> \o r.log]
    /\ UNCHANGED <<port, phase, starting, stopping, readying, queryVars, scanVars, errVars, restVars>>

\* the getForeignObject callback of doConnect runs: it calls
\* zbController.start(), or throws before that (obj is missing); nothing
\* catches what this async callback throws.
ForeignObjectCallback(objOk) ==
    /\ callbacks > 0
    /\ callbacks' = callbacks - 1
    /\ IF objOk
       THEN /\ starting' = starting + 1
            /\ phase' = "started"
            /\ lastStep' = [handler |-> "getForeignObject", log |-> <<"Installed Version">>]
       ELSE /\ starting' = starting
            /\ phase' = phase
            /\ lastStep' = [handler |-> "getForeignObject", log |-> <<"unhandled rejection">>]
    /\ UNCHANGED <<port, reconnectCounter, reconnectTimer, timers, connection,
                   stopping, readying, queryVars, scanVars, errVars, restVars>>

\* zbController.start() rejects inside the callback: the rejection reaches
\* neither doConnect's catch branch nor any other handler of the adapter.
StartRejects ==
    /\ starting > 0
    /\ starting' = starting - 1
    /\ lastStep' = [handler |-> "startRejected", log |-> <<"unhandled rejection">>]
    /\ UNCHANGED <<port, phase, reconnectCounter, reconnectTimer, timers, connection,
                   callbacks, stopping, readying, queryVars, scanVars, errVars, restVars>>

\* the controller emits 'ready': first section of onZigbeeAdapterReady
onZigbeeAdapterReady ==
    /\ starting > 0
    /\ starting' = starting - 1
    /\ timers' = ClearTimeout(timers, reconnectTimer)
    /\ readying' = readying + 1
    /\ lastStep' = [handler |-> "onZigbeeAdapterReady", log |-> <<"Zigbee started">>]
    /\ UNCHANGED <<port, phase, reconnectCounter, reconnectTimer, connection,
                   callbacks, stopping, queryVars, scanVars, errVars, restVars>>

\* onZigbeeAdapterReady resumes: info.connection := true, devices resynchronised,
\* plugins started
ReadyResumes ==
    /\ readying > 0
    /\ readying' = readying - 1
    /\ connection' = "true"
    /\ phase' = "ready"
    /\ lastStep' = [handler |-> "onZigbeeAdapterReady", log |-> <<>>]
    /\ UNCHANGED <<port, reconnectCounter, reconnectTimer, timers,
                   callbacks, starting, stopping, queryVars, scanVars, errVars, restVars>>

\* the started controller emits 'disconnect': onZigbeeAdapterDisconnected up
\* to its await of callPluginMethod('stop')
onZigbeeAdapterDisconnected ==
    /\ phase \in {"started", "ready", "disconnected"}
    /\ stopping + Len(timers) < MaxTimers
    /\ reconnectCounter' = RECONNECT_CEILING
    /\ connection' = "false"
    /\ stopping' = stopping + 1
    /\ phase' = IF phase = "ready" THEN "disconnected" ELSE phase
    /\ lastStep' = [handler |-> "onZigbeeAdapterDisconnected",
                    log |-> <<"Adapter disconnected, stopping">>]
    /\ UNCHANGED <<port, reconnectTimer, timers, callbacks, starting, readying, queryVars, scanVars, errVars, restVars>>

\* callPluginMethod('stop') settles: tryToReconnect() follows when it
\* returned; when a plugin's stop threw, the handler ends by rejecting.
PluginStopSettles(threw) ==
    /\ stopping > 0
    /\ stopping' = stopping - 1
    /\ IF threw
       THEN /\ lastStep' = [handler |-> "onZigbeeAdapterDisconnected",
                            log |-> <<"Failed to call plugin stop", "unhandled rejection">>]
            /\ UNCHANGED <<timers, reconnectTimer>>
       ELSE LET r == tryToReconnect(timers, reconnectTimer)
            IN  /\ timers' = r.timers
                /\ reconnectTimer' = r.reconnectTimer
                /\ lastStep' = [handler |-> "tryToReconnect", log |-> <<>>]
    /\ UNCHANGED <<port, phase, reconnectCounter, connection, callbacks, starting, readying, queryVars, scanVars, errVars, restVars>>

ConnNext ==
    \/ \E throws \in BOOLEAN : onReady(throws)
    \/ \E throws \in BOOLEAN : ReconnectTimerFires(throws)
    \/ \E objOk \in BOOLEAN : ForeignObjectCallback(objOk)
    \/ StartRejects
    \/ onZigbeeAdapterReady
    \/ ReadyResumes
    \/ onZigbeeAdapterDisconnected
    \/ \E threw \in BOOLEAN : PluginStopSettles(threw)

\* ======================= outbound converter scan =========================
MaxConverters == 3

Keys == {"state", "brightness"}

\* a property the descriptor does not have (stateDesc.prop, stateDesc.setattr)
Undefined == "undefined"

\* a toZigbee entry: convertSet present or not, key present or not, its keys
Converters ==
    [convertSet : BOOLEAN, hasKey : {TRUE}, key : SUBSET Keys]
        \cup [convertSet : BOOLEAN, hasKey : {FALSE}, key : {{}}]

StateDescs ==
    [id : Keys, prop : Keys \cup {Undefined}, setattr : Keys \cup {Undefined}]

SeqsUpTo(S, n) ==
    UNION {[1..k -> S] : k \in 0..n}

\* c.key.includes(stateDesc.prop) || c.key.includes(stateDesc.setattr) || c.key.includes(stateDesc.id)
KeyMatches(c, sd) ==
    sd.prop \in c.key \/ sd.setattr \in c.key \/ sd.id \in c.key

\* a scan in which a keyless converter replaces whatever was selected
ScanStep_KeylessMutant(list, i, sd, conv) ==
    LET c == list[i]
    IN  IF ~c.convertSet THEN conv
        ELSE IF ~c.hasKey THEN i
        ELSE IF KeyMatches(c, sd) THEN i
        ELSE conv

\* a scan that keeps the first keyed match
ScanStep_Mutant(list, i, sd, conv) ==
    LET c == list[i]
    IN  IF ~c.convertSet THEN conv
        ELSE IF ~c.hasKey THEN (IF conv = 0 THEN i ELSE conv)
        ELSE IF KeyMatches(c, sd) /\ (conv = 0 \/ ~list[conv].hasKey) THEN i
        ELSE conv

\* one iteration of `for (const c of mappedModel.toZigbee)`: conv is the
\* position held by converter before, the result the position held after
ScanStep(list, i, sd, conv) ==
    LET c == list[i]
    IN  IF ~c.convertSet THEN conv
        ELSE IF ~c.hasKey THEN (IF conv = 0 THEN i ELSE conv)
        ELSE IF KeyMatches(c, sd) THEN i
        ELSE conv

RECURSIVE ScanFrom(_, _, _, _)
ScanFrom(list, i, sd, conv) ==
    IF i > Len(list) THEN conv
    ELSE ScanFrom(list, i + 1, sd, ScanStep(list, i, sd, conv))

ScanInit ==
    /\ toZigbee \in SeqsUpTo(Converters, MaxConverters)
    /\ stateDesc \in StateDescs
    /\ converter = 0
    /\ scanPc = "idle"

\* the converter scan of one ChangedState that is neither send_payload nor
\* an option/composite state
ConverterScan ==
    /\ scanPc = "idle"
    /\ converter' = ScanFrom(toZigbee, 1, stateDesc, 0)
    /\ scanPc' = "scanned"
    /\ UNCHANGED <<toZigbee, stateDesc, queryVars, connVars, errVars, restVars>>

ScanNext ==
    ConverterScan

\* ======================= filterError =====================================
MaxStack == 4

E_INFO  == 1
E_DEBUG == 2
E_WARN  == 3
E_ERROR == 4

TableCodes == {9999, 233, 205, 134}

errorCodes ==
    [c \in TableCodes |->
        CASE c = 9999 -> [severity |-> E_INFO,  message |-> "No response"]
          [] c = 233  -> [severity |-> E_DEBUG, message |-> "MAC NO ACK"]
          [] c = 205  -> [severity |-> E_WARN,  message |-> "No network route"]
          [] c = 134  -> [severity |-> E_WARN,  message |-> "Unsupported Attribute"]]

\* error.code == undefined (undefined or null)
NoCode == -1

\* codes that are not in the table
AbsentCodes == {1}

\* error.stack in pieces: the literal pieces of the two patterns and text
Tokens == {"failed (", ")", " at", "233", "1"}

\* the number a piece of text reads as
CodeOfText ==
    [t \in {"233", "1"} |-> IF t = "233" THEN 233 ELSE 1]

\* thrown values without a stack property (a thrown string)
NoStack == <<"undefined">>

\* error === null or undefined
NullError == [code |-> NoCode, stack |-> <<"null">>]

Errors ==
    [code : {NoCode} \cup AbsentCodes \cup TableCodes,
     stack : SeqsUpTo(Tokens, MaxStack) \cup {NoStack}]
        \cup {NullError}

\* the starts (of "failed (") and capture lengths at which a pattern
\* "failed (" .+? tail matches
PatternMatches(stack, tail) ==
    {m \in (1..Len(stack)) \X (1..Len(stack)) :
        /\ stack[m[1]] = "failed ("
        /\ m[1] + m[2] + Len(tail) <= Len(stack)
        /\ SubSeq(stack, m[1] + m[2] + 1, m[1] + m[2] + Len(tail)) = tail}

\* String.prototype.match with one lazy group: the leftmost start, the
\* shortest capture from it; <<>> when there is no match (null)
MatchGroup(stack, tail) ==
    LET ms == PatternMatches(stack, tail)
    IN  IF ms = {} THEN <<>>
        ELSE LET m == CHOOSE x \in ms :
                        \A y \in ms : x[1] < y[1] \/ (x[1] = y[1] /\ x[2] <= y[2])
             IN  SubSeq(stack, m[1] + 1, m[1] + m[2])

\* em = stack.match(/failed \((.+?)\) at/) || stack.match(/failed \((.+?)\)/)
ExtractCode(stack) ==
    LET em == MatchGroup(stack, <<")", " at">>)
    IN  IF em # <<>> THEN em ELSE MatchGroup(stack, <<")">>)

LogLine(level, kind, code, msg, em) ==
    [level |-> level, kind |-> kind, code |-> code, msg |-> msg, em |-> em]

\* an unknown code that goes unreported
FilterUnknownCode_Mutant(err) ==
    [pc |-> "returned",
     log |-> << LogLine("warn", "errormessage", err.code, "", <<>>) >>,
     sent |-> <<>>]

\* the branch for a code that errorCodes does not hold
FilterUnknownCode(err) ==
    [pc |-> "returned",
     log |-> << LogLine("error", "errormessage", err.code, "", <<>>) >>,
     sent |-> <<"errormessage">>]

\* a switch whose debug case logs at info level
FilterKnownCode_Mutant(err) ==
    LET ecode == errorCodes[err.code]
    IN  [pc |-> "returned",
         log |-> << LogLine(IF ecode.severity = E_WARN THEN "warn" ELSE "info",
                            "Code", err.code, ecode.message, <<>>) >>,
         sent |-> <<>>]

\* switch (ecode.severity)
FilterKnownCode(err) ==
    LET ecode == errorCodes[err.code]
    IN  CASE ecode.severity = E_INFO ->
               [pc |-> "returned",
                log |-> << LogLine("info", "Code", err.code, ecode.message, <<>>) >>,
                sent |-> <<>>]
          [] ecode.severity = E_DEBUG ->
               [pc |-> "returned",
                log |-> << LogLine("debug", "Code", err.code, ecode.message, <<>>) >>,
                sent |-> <<>>]
          [] ecode.severity = E_WARN ->
               [pc |-> "returned",
                log |-> << LogLine("warn", "Code", err.code, ecode.message, <<>>) >>,
                sent |-> <<>>]
          [] ecode.severity = E_ERROR ->
               [pc |-> "returned",
                log |-> << LogLine("error", "Code", err.code, ecode.message, <<>>) >>,
                sent |-> <<"Code">>]
          [] OTHER ->
               [pc |-> "returned",
                log |-> << LogLine("error", "Code", err.code, "malformed error", <<>>) >>,
                sent |-> <<"malformed error">>]

\* a no-code branch that classifies by the code read from the stack
FilterNoCode_Mutant(err) ==
    IF err.stack = NoStack
    THEN [pc |-> "threw", log |-> <<>>, sent |-> <<>>]
    ELSE LET em == ExtractCode(err.stack)
         IN  IF Len(em) = 1 /\ em[1] \in DOMAIN CodeOfText
             THEN IF CodeOfText[em[1]] \in DOMAIN errorCodes
                  THEN FilterKnownCode([code |-> CodeOfText[em[1]], stack |-> err.stack])
                  ELSE FilterUnknownCode([code |-> CodeOfText[em[1]], stack |-> err.stack])
             ELSE [pc |-> "returned",
                   log |-> << LogLine("error", "no error code", NoCode, "", <<"undefined">>) >>,
                   sent |-> <<"no error code">>]

\* the branch for an error without a code
FilterNoCode(err) ==
    IF err.stack = NoStack
    THEN [pc |-> "threw", log |-> <<>>, sent |-> <<>>]
    ELSE LET em == ExtractCode(err.stack)
         IN  [pc |-> "returned",
              log |-> << LogLine("error", "no error code", NoCode, "",
                                 IF em # <<>> THEN em ELSE <<"undefined">>),
                         LogLine("debug", "Stack trace", NoCode, "", em) >>,
              sent |-> <<"no error code">>]

\* filterError(errormessage, message, error); reading error.code of a null
\* error throws
FilterError(err) ==
    IF err = NullError THEN [pc |-> "threw", log |-> <<>>, sent |-> <<>>]
    ELSE IF err.code = NoCode THEN FilterNoCode(err)
    ELSE IF err.code \notin DOMAIN errorCodes THEN FilterUnknownCode(err)
    ELSE FilterKnownCode(err)

ErrInit ==
    /\ error \in Errors
    /\ errLog = <<>>
    /\ errSent = <<>>
    /\ errPc = "idle"

filterError ==
    /\ errPc = "idle"
    /\ LET r == FilterError(error)
       IN  /\ errPc' = r.pc
           /\ errLog' = r.log
           /\ errSent' = r.sent
    /\ UNCHANGED <<error, queryVars, connVars, scanVars, restVars>>

ErrNext ==
    filterError

\* ======================= checkIfModelUpdate ==============================
NumStates == 2
NumEvents == 2

\* inbound events of one device, in the order they arrive
Events == 1..NumEvents

\* the state entries the device has under the stored (old) model
PriorEntries == 1..NumStates

\* the state entries syncDevStates creates for the resolved model
NewEntries == 0

\* a chain that is not awaited
ChainSettled_Mutant(chain) ==
    TRUE

\* Promise.all(chain) has resolved: every deleteStateAsync of the chain did
ChainSettled(chain) ==
    chain = {}

UpdInit ==
    /\ devObj \in {"old", "new"}
    /\ stateTree \in IF devObj = "old" THEN (SUBSET PriorEntries) \ {{}}
                                       ELSE {{NewEntries}}
    /\ evPc = [e \in Events |-> "idle"]
    /\ evChain = [e \in Events |-> {}]
    /\ evFound = [e \in Events |-> "nothing"]

\* the protocol layer emits the event: onZigbeeEvent runs up to
\* `await this.checkIfModelUpdate(entity)`, which calls this.getObject
EventArrives(e) ==
    /\ evPc[e] = "idle"
    /\ \A f \in Events : f < e => evPc[f] # "idle"
    /\ evPc' = [evPc EXCEPT ![e] = "getObject"]
    /\ UNCHANGED <<devObj, stateTree, evChain, evFound,
                   queryVars, connVars, scanVars, errVars, lateVars, outVars, evtVars>>

\* the getObject callback: `obj && obj.common.type !== model` calls
\* getStatesOf, everything else (an error, no object, the same type) resolves
GetObjectCallback(e, ok) ==
    /\ evPc[e] = "getObject"
    /\ IF ok /\ devObj = "old"
       THEN /\ evPc' = [evPc EXCEPT ![e] = "getStatesOf"]
            /\ evFound' = [evFound EXCEPT ![e] = "differs"]
       ELSE /\ evPc' = [evPc EXCEPT ![e] = "resolved"]
            /\ evFound' = [evFound EXCEPT ![e] =
                               IF ~ok THEN "getObjectFailed"
                               ELSE IF devObj = "none" THEN "noObject" ELSE "same"]
    /\ UNCHANGED <<devObj, stateTree, evChain,
                   queryVars, connVars, scanVars, errVars, lateVars, outVars, evtVars>>

\* the getStatesOf callback: `!err && states` starts one deleteStateAsync per
\* listed state and waits for all of them; otherwise it resolves
GetStatesOfCallback(e, ok) ==
    /\ evPc[e] = "getStatesOf"
    /\ IF ok
       THEN /\ evChain' = [evChain EXCEPT ![e] = stateTree]
            /\ evPc' = [evPc EXCEPT ![e] =
                            IF ChainSettled(stateTree) THEN "deleteObj" ELSE "deleting"]
            /\ UNCHANGED evFound
       ELSE /\ evPc' = [evPc EXCEPT ![e] = "resolved"]
            /\ evFound' = [evFound EXCEPT ![e] = "listFailed"]
            /\ UNCHANGED evChain
    /\ UNCHANGED <<devObj, stateTree, queryVars, connVars, scanVars, errVars, lateVars, outVars, evtVars>>

\* one deleteStateAsync of e's chain settles.  A rejection rejects
\* Promise.all(chain), which has no rejection handler: resolve is never
\* called and the event stays suspended, while the other deletions go on.
DeleteStateSettles(e, s, ok) ==
    /\ s \in evChain[e]
    /\ evChain' = [evChain EXCEPT ![e] = @ \ {s}]
    /\ stateTree' = IF ok THEN stateTree \ {s} ELSE stateTree
    /\ evPc' = [evPc EXCEPT ![e] =
                    IF ~ok THEN "suspended"
                    ELSE IF @ = "deleting" /\ ChainSettled(evChain'[e]) THEN "deleteObj"
                    ELSE @]
    /\ UNCHANGED <<devObj, evFound, queryVars, connVars, scanVars, errVars, lateVars, outVars, evtVars>>

\* .then(() => this.stController.deleteObj(devId, ...)): the device object is
\* deleted
DeleteObj(e) ==
    /\ evPc[e] = "deleteObj"
    /\ devObj' = "none"
    /\ evPc' = [evPc EXCEPT ![e] = "updateDev"]
    /\ UNCHANGED <<stateTree, evChain, evFound,
                   queryVars, connVars, scanVars, errVars, lateVars, outVars, evtVars>>

\* this.stController.updateDev(devId, model, model, ...): the device object
\* is written with the resolved model as its type
UpdateDev(e) ==
    /\ evPc[e] = "updateDev"
    /\ devObj' = "new"
    /\ evPc' = [evPc EXCEPT ![e] = "syncDevStates"]
    /\ UNCHANGED <<stateTree, evChain, evFound,
                   queryVars, connVars, scanVars, errVars, lateVars, outVars, evtVars>>

\* await this.stController.syncDevStates(device, model); resolve().  When
\* syncDevStates rejects, the async callback rejects and resolve is not called.
SyncDevStates(e, ok) ==
    /\ evPc[e] = "syncDevStates"
    /\ IF ok
       THEN /\ stateTree' = stateTree \cup {NewEntries}
            /\ evPc' = [evPc EXCEPT ![e] = "resolved"]
       ELSE /\ stateTree' = stateTree
            /\ evPc' = [evPc EXCEPT ![e] = "suspended"]
    /\ UNCHANGED <<devObj, evChain, evFound,
                   queryVars, connVars, scanVars, errVars, lateVars, outVars, evtVars>>

\* onZigbeeEvent continues after the await and publishes the event's values
\* (linkquality, msg_from_zigbee, converter payloads)
EventPublishes(e) ==
    /\ evPc[e] = "resolved"
    /\ evPc' = [evPc EXCEPT ![e] = "published"]
    /\ UNCHANGED <<devObj, stateTree, evChain, evFound,
                   queryVars, connVars, scanVars, errVars, lateVars, outVars, evtVars>>

UpdNext ==
    \/ \E e \in Events : EventArrives(e)
    \/ \E e \in Events : \E ok \in BOOLEAN : GetObjectCallback(e, ok)
    \/ \E e \in Events : \E ok \in BOOLEAN : GetStatesOfCallback(e, ok)
    \/ \E e \in Events : \E s \in PriorEntries \cup {NewEntries} : \E ok \in BOOLEAN :
          DeleteStateSettles(e, s, ok)
    \/ \E e \in Events : DeleteObj(e)
    \/ \E e \in Events : UpdateDev(e)
    \/ \E e \in Events : \E ok \in BOOLEAN : SyncDevStates(e, ok)
    \/ \E e \in Events : EventPublishes(e)

\* ======================= sendPayload / publishFromState ==================
MaxPayloadKeys == 2
MaxStates      == 2

\* a missing property (undefined)
Absent == "absent"

\* JSON values of a payload key: their runtime type and their text
ValueOn == [type |-> "string", text |-> "ON"]
JsNull  == [type |-> "object", text |-> "null"]
ValueNum == [type |-> "number", text |-> "5"]
Values  == {ValueOn, ValueNum, JsNull}

\* the device field: a mapped device, a device without a model, an unknown
\* address, a group, or no device field
DeviceFields == {"aabbcc", "ccddee", "ffffff", "group_1", Absent}

\* payload.device.replace('group_', '')
GroupNumber(device) ==
    IF device = "group_1" THEN "1" ELSE device

\* !payload.device.includes('group_')
IsDevice(device) ==
    device # "group_1"

\* objects in key order, no key twice
PayloadPairs ==
    {ps \in SeqsUpTo([key : Keys, value : Values], MaxPayloadKeys) :
        \A i, j \in 1..Len(ps) : ps[i].key = ps[j].key => i = j}

\* the payload field: missing, a string, or an object
PayloadFields ==
    {[kind |-> "absent", pairs |-> <<>>], [kind |-> "text", pairs |-> <<>>]}
        \cup [kind : {"object"}, pairs : PayloadPairs]

PayloadObjects ==
    [device : DeviceFields, payload : PayloadFields]

\* {} : an object with no property
EmptyObject ==
    [device |-> Absent, payload |-> [kind |-> "absent", pairs |-> <<>>]]

\* what sendPayload is called with: an object, null, a number, the JSON text
\* of an object, the JSON text "null", or a string that is not JSON
SpArgs ==
    [kind : {"object", "string"}, obj : PayloadObjects]
        \cup [kind : {"null", "number", "stringNull", "badString"}, obj : {EmptyObject}]

NoCall == [kind |-> "none", obj |-> EmptyObject]

\* a parser that reads every malformed text as {}
JsonParse_Mutant(arg) ==
    CASE arg.kind = "string"     -> [ok |-> TRUE, kind |-> "object", obj |-> arg.obj]
      [] arg.kind = "stringNull" -> [ok |-> TRUE, kind |-> "null",   obj |-> EmptyObject]
      [] OTHER                   -> [ok |-> TRUE, kind |-> "object", obj |-> EmptyObject]

\* JSON.parse(payload): the value the text encodes, or a SyntaxError
JsonParse(arg) ==
    CASE arg.kind = "string"     -> [ok |-> TRUE,  kind |-> "object", obj |-> arg.obj]
      [] arg.kind = "stringNull" -> [ok |-> TRUE,  kind |-> "null",   obj |-> EmptyObject]
      [] OTHER                   -> [ok |-> FALSE, kind |-> "none",   obj |-> EmptyObject]

IsString(arg) ==
    arg.kind \in {"string", "stringNull", "badString"}

\* payloadObj after the typeof branches: the parsed text, the object itself
\* (typeof null is 'object'), or {} for every other type
PayloadObj(arg) ==
    IF IsString(arg) THEN [kind |-> JsonParse(arg).kind, obj |-> JsonParse(arg).obj]
    ELSE IF arg.kind \in {"object", "null"} THEN [kind |-> arg.kind, obj |-> arg.obj]
    ELSE [kind |-> "object", obj |-> EmptyObject]

\* payload.device read from the argument itself: a string has no such property
ArgDevice(arg) ==
    IF arg.kind = "object" THEN arg.obj.device ELSE Absent

\* identifiers handed to resolveEntity: `0x${device}` or the group number
IeeeId(device) == [kind |-> "ieee", name |-> device]
GroupId(num)   == [kind |-> "group", name |-> num]

DevID(device) ==
    IF IsDevice(device) THEN IeeeId(device) ELSE GroupId(GroupNumber(device))

\* zbController.resolveEntity(id): the entity the protocol layer knows
ResolveEntity(id) ==
    CASE id = IeeeId("aabbcc") -> "mapped"
      [] id = IeeeId("ccddee") -> "unmapped"
      [] id = GroupId("1")     -> "group"
      [] OTHER                 -> "none"

Failure(msg) == [success |-> FALSE, error |-> msg]
Success      == [success |-> TRUE, error |-> Absent]
NoResult     == [success |-> FALSE, error |-> "none"]

\* sendPayload up to its first await or its return
SendPayloadCall(arg) ==
    IF IsString(arg) /\ ~JsonParse(arg).ok
    THEN [pc |-> "returned", result |-> Failure("Unable to parse"),
          resolve |-> <<>>, log |-> <<"Unable to parse">>]
    ELSE LET payloadObj == PayloadObj(arg)
         IN  IF payloadObj.kind = "null"
             THEN [pc |-> "threw", result |-> NoResult, resolve |-> <<>>, log |-> <<>>]
             ELSE IF payloadObj.obj.device # Absent /\ payloadObj.obj.payload.kind # "absent"
             THEN IF ArgDevice(arg) = Absent
                  THEN [pc |-> "returned", result |-> Failure("TypeError"),
                        resolve |-> <<>>, log |-> <<>>]
                  ELSE [pc |-> "resolveEntity", result |-> NoResult,
                        resolve |-> <<DevID(ArgDevice(arg))>>, log |-> <<>>]
             ELSE [pc |-> "returned", result |-> Failure("missing parameter"),
                   resolve |-> <<>>, log |-> <<>>]

\* a synthetic state that is always typed as a string
SyntheticState_Mutant(pair) ==
    [id |-> pair.key, prop |-> pair.key, setattr |-> Undefined, value |-> pair.value,
     flag |-> "plain", role |-> "state", type |-> "string"]

\* the synthetic ChangedState of one payload key: datatype = typeof
\* payloadObj.payload[key]; no setattr, neither isOption nor compositeState
SyntheticState(pair) ==
    [id |-> pair.key, prop |-> pair.key, setattr |-> Undefined, value |-> pair.value,
     flag |-> "plain", role |-> "state", type |-> pair.value.type]

\* for (const key in payloadObj.payload) if (payloadObj.payload[key] != undefined) push
RECURSIVE BuildStateList(_)
BuildStateList(pairs) ==
    IF pairs = <<>> THEN <<>>
    ELSE (IF Head(pairs).value # JsNull THEN <<SyntheticState(Head(pairs))>> ELSE <<>>)
            \o BuildStateList(Tail(pairs))

NoArgs == [deviceId |-> IeeeId(Absent), model |-> "", stateModel |-> "none", stateList |-> <<>>]

\* ChangedStates of a 'changed' event of the state tree (not send_payload,
\* not device_query, no setter): plain states, and the state `state` with a
\* descriptor flagged isOption or compositeState
ChangedStates ==
    [id : Keys, prop : {Undefined}, setattr : {Undefined}, value : {ValueOn},
     flag : {"plain"}]
        \cup [id : {"state"}, prop : {Undefined}, setattr : {Undefined}, value : {ValueOn},
              flag : {"isOption", "compositeState"}]

\* what the state tree calls publishFromState with: a device or a group,
\* no state model, one without syncStates, or one whose syncStates return
\* one instruction per state
ChangedArgs ==
    {a \in [deviceId : {IeeeId("aabbcc"), IeeeId("ffffff"), GroupId("1")},
            model : {"lamp", "group"},
            stateModel : {"none", "noSync", "sync"},
            stateList : SeqsUpTo(ChangedStates, MaxStates)] :
        (a.model = "group") <=> (a.deviceId.kind = "group")}

\* the toZigbee lists of the mapped models
OutToZigbee ==
    { <<>>,
      << [convertSet |-> TRUE, hasKey |-> TRUE, key |-> {"state"}] >>,
      << [convertSet |-> TRUE, hasKey |-> FALSE, key |-> {}],
         [convertSet |-> TRUE, hasKey |-> TRUE, key |-> {"state", "brightness"}] >>,
      << [convertSet |-> FALSE, hasKey |-> TRUE, key |-> {"state"}],
         [convertSet |-> TRUE, hasKey |-> TRUE, key |-> {"brightness"}],
         [convertSet |-> TRUE, hasKey |-> FALSE, key |-> {}] >> }

\* a key taken from the set attribute alone
WriteKey_Mutant(sd) ==
    sd.setattr

\* key = stateDesc.setattr || stateDesc.prop || stateDesc.id
WriteKey(sd) ==
    IF sd.setattr # Undefined THEN sd.setattr
    ELSE IF sd.prop # Undefined THEN sd.prop ELSE sd.id

Write(target, sd) ==
    [target |-> target, key |-> WriteKey(sd), value |-> sd.value]

\* a branch taken for isOption alone
Informational_Mutant(sd) ==
    sd.flag = "isOption"

\* stateDesc.isOption || stateDesc.compositeState
Informational(sd) ==
    sd.flag \in {"isOption", "compositeState"}

\* acknowledgeState(deviceId, model, stateDesc, value) of the option branch
OptionAck(sd) ==
    [id |-> sd.id, kind |-> "option", value |-> sd.value]

\* the callback of stateList.forEach for one ChangedState, up to its first
\* await: an option or composite state is acknowledged and the callback
\* returns; no converter is logged and reported; a group write calls
\* convertSet at once on entity.mapped; a device write awaits
\* resolveEntity(deviceId, epName)
ForEachCallback(args, list, sd) ==
    LET conv == ScanFrom(list, 1, [id |-> sd.id, prop |-> sd.prop, setattr |-> sd.setattr], 0)
    IN  IF Informational(sd)
        THEN [item |-> [pc |-> "acknowledged", converter |-> 0],
              writes |-> <<>>, resolve |-> <<>>, log |-> <<>>, acks |-> <<OptionAck(sd)>>]
        ELSE IF conv = 0
        THEN [item |-> [pc |-> "noConverter", converter |-> 0],
              writes |-> <<>>, resolve |-> <<>>, log |-> <<"No converter available">>,
              acks |-> <<>>]
        ELSE IF args.model = "group"
        THEN [item |-> [pc |-> "convertSet", converter |-> conv],
              writes |-> <<Write(args.deviceId, sd)>>, resolve |-> <<>>, log |-> <<>>,
              acks |-> <<>>]
        ELSE [item |-> [pc |-> "resolveEntity", converter |-> conv],
              writes |-> <<>>, resolve |-> <<args.deviceId>>, log |-> <<>>, acks |-> <<>>]

\* stateList.forEach(async changedState => ...): every callback runs to its
\* first await, in list order
RECURSIVE ForEach(_, _, _)
ForEach(args, list, i) ==
    IF i > Len(args.stateList)
    THEN [items |-> <<>>, writes |-> <<>>, resolve |-> <<>>, log |-> <<>>, acks |-> <<>>]
    ELSE LET r    == ForEachCallback(args, list, args.stateList[i])
             rest == ForEach(args, list, i + 1)
         IN  [items |-> <<r.item>> \o rest.items, writes |-> r.writes \o rest.writes,
              resolve |-> r.resolve \o rest.resolve, log |-> r.log \o rest.log,
              acks |-> r.acks \o rest.acks]

\* the value of a sync instruction, as stateModel.syncStates computed it
SyncValue == [type |-> "string", text |-> "synced"]

\* an acknowledgement that does not look at the group flag
AckOf_Mutant(args, sd) ==
    IF args.stateModel # "none"
    THEN << [id |-> sd.id, kind |-> "state", value |-> sd.value] >> ELSE <<>>

\* the acknowledgement of the written state: only with a state model and
\* not for a group
AckOf(args, sd) ==
    IF args.stateModel # "none" /\ args.model # "group"
    THEN << [id |-> sd.id, kind |-> "state", value |-> sd.value] >> ELSE <<>>

\* processSyncStatesList(deviceId, model, syncStateList): the instructions
\* stateModel.syncStates returned for the state
SyncOf(args, sd) ==
    IF args.stateModel = "sync"
    THEN << [id |-> sd.id, kind |-> "sync", value |-> SyncValue] >> ELSE <<>>

\* errors convertSet throws: an Error with a code, a thrown string (no
\* stack), a thrown null
ThrownErrors ==
    {[code |-> 233, stack |-> <<>>], [code |-> NoCode, stack |-> NoStack], NullError}

OutInit ==
    /\ toZigbee \in OutToZigbee
    /\ hasToZigbee \in {h \in BOOLEAN : ~h => toZigbee = <<>>}
    /\ stateDesc = [id |-> "state", prop |-> Undefined, setattr |-> Undefined]
    /\ converter = 0
    /\ scanPc = "idle"
    /\ \/ spArg \in SpArgs /\ pfsArgs = NoArgs
       \/ spArg = NoCall /\ pfsArgs \in ChangedArgs
    /\ spPc = "idle"
    /\ spResult = NoResult
    /\ pfsPc = "idle"
    /\ items = <<>>
    /\ writes = <<>>
    /\ acks = <<>>
    /\ resolveCalls = <<>>
    /\ outLog = <<>>
    /\ unhandled = 0

\* sendPayload(payload) is called and runs to its first await or its return
sendPayload ==
    /\ spArg # NoCall
    /\ spPc = "idle"
    /\ LET r == SendPayloadCall(spArg)
       IN  /\ spPc' = r.pc
           /\ spResult' = r.result
           /\ resolveCalls' = resolveCalls \o r.resolve
           /\ outLog' = outLog \o r.log
    /\ UNCHANGED <<spArg, hasToZigbee, pfsArgs, pfsPc, items, writes, acks, unhandled,
                   queryVars, connVars, scanVars, errVars, lateVars, updVars, evtVars>>

\* publishFromState up to `await this.zbController.resolveEntity(deviceId)`
PublishFromStateCall(args) ==
    [pfsArgs |-> args, resolve |-> <<args.deviceId>>]

\* sendPayload's resolveEntity(devID) settles: the failure results, or the
\* state list is built and publishFromState(`0x${payload.device}`, '',
\* undefined, stateList, payload.options) is called
SendPayloadResolved(throws) ==
    /\ spPc = "resolveEntity"
    /\ LET entity     == ResolveEntity(DevID(ArgDevice(spArg)))
           payloadObj == PayloadObj(spArg)
       IN  /\ throws => entity = "none"
           /\ IF throws \/ entity \in {"none", "unmapped"} \/ payloadObj.obj.payload.kind # "object"
              THEN /\ spPc' = "returned"
                   /\ spResult' = Failure(IF throws THEN "resolveEntity threw"
                                          ELSE IF entity = "none" THEN "not found"
                                          ELSE IF entity = "unmapped" THEN "No Model"
                                          ELSE "Illegal payload type")
                   /\ outLog' = outLog \o (IF throws THEN <<>> ELSE <<spResult'.error>>)
                   /\ UNCHANGED <<pfsArgs, pfsPc, resolveCalls>>
              ELSE LET c == PublishFromStateCall(
                               [deviceId |-> IeeeId(ArgDevice(spArg)), model |-> "",
                                stateModel |-> "none",
                                stateList |-> BuildStateList(payloadObj.obj.payload.pairs)])
                   IN  /\ spPc' = "publishFromState"
                       /\ pfsArgs' = c.pfsArgs
                       /\ pfsPc' = "resolveEntity"
                       /\ resolveCalls' = resolveCalls \o c.resolve
                       /\ UNCHANGED <<spResult, outLog>>
    /\ UNCHANGED <<spArg, hasToZigbee, items, writes, acks, unhandled,
                   queryVars, connVars, scanVars, errVars, lateVars, updVars, evtVars>>

\* the state tree's 'changed' event calls publishFromState
publishFromState ==
    /\ spArg = NoCall
    /\ pfsPc = "idle"
    /\ pfsPc' = "resolveEntity"
    /\ resolveCalls' = resolveCalls \o PublishFromStateCall(pfsArgs).resolve
    /\ UNCHANGED <<spArg, hasToZigbee, spPc, spResult, pfsArgs, items, writes, acks, outLog, unhandled,
                   queryVars, connVars, scanVars, errVars, lateVars, updVars, evtVars>>

\* entity ? entity.mapped : undefined is truthy
HasMappedModel(entity) ==
    entity \notin {"none", "unmapped"}

\* a resolution that does not look at toZigbee
HasConverterList_Mutant(has) ==
    TRUE

\* mappedModel.toZigbee is truthy
HasConverterList(has) ==
    has

\* publishFromState's resolveEntity(deviceId) settles: a throw is caught and
\* logged, no mapped model and no toZigbee return, otherwise the forEach runs; then
\* publishFromState returns, with the callbacks past their first await pending
PublishResolved(throws) ==
    /\ pfsPc = "resolveEntity"
    /\ pfsPc' = "returned"
    /\ LET entity == ResolveEntity(pfsArgs.deviceId)
       IN  /\ throws => entity = "none"
           /\ IF throws
              THEN /\ outLog' = outLog \o <<"No entity for">>
                   /\ UNCHANGED <<items, writes, acks, resolveCalls>>
              ELSE IF ~HasMappedModel(entity)
              THEN UNCHANGED <<items, writes, acks, resolveCalls, outLog>>
              ELSE IF ~HasConverterList(hasToZigbee)
              THEN /\ outLog' = outLog \o <<"No toZigbee in mapped model">>
                   /\ UNCHANGED <<items, writes, acks, resolveCalls>>
              ELSE LET r == ForEach(pfsArgs, toZigbee, 1)
                   IN  /\ items' = r.items
                       /\ writes' = writes \o r.writes
                       /\ acks' = acks \o r.acks
                       /\ resolveCalls' = resolveCalls \o r.resolve
                       /\ outLog' = outLog \o r.log
    /\ UNCHANGED <<spArg, hasToZigbee, spPc, spResult, pfsArgs, unhandled,
                   queryVars, connVars, scanVars, errVars, lateVars, updVars, evtVars>>

\* `await this.publishFromState(...)` in sendPayload resumes: return {success: true}
SendPayloadReturns ==
    /\ spPc = "publishFromState"
    /\ pfsPc = "returned"
    /\ spPc' = "returned"
    /\ spResult' = Success
    /\ UNCHANGED <<spArg, hasToZigbee, pfsArgs, pfsPc, items, writes, acks, resolveCalls, outLog,
                   unhandled, queryVars, connVars, scanVars, errVars, lateVars, updVars, evtVars>>

\* resolveEntity(deviceId, epName) of one callback settles: convertSet is
\* called on target.endpoint; when it threw or returned nothing, the
\* callback rejects (`target.endpoint` of undefined), outside any try
TargetResolved(i, ok) ==
    /\ i \in 1..Len(items)
    /\ items[i].pc = "resolveEntity"
    /\ IF ok
       THEN /\ items' = [items EXCEPT ![i].pc = "convertSet"]
            /\ writes' = writes \o
                  <<Write([kind |-> "endpoint", name |-> pfsArgs.deviceId.name],
                          pfsArgs.stateList[i])>>
            /\ UNCHANGED unhandled
       ELSE /\ items' = [items EXCEPT ![i].pc = "noTarget"]
            /\ unhandled' = unhandled + 1
            /\ UNCHANGED writes
    /\ UNCHANGED <<spArg, hasToZigbee, spPc, spResult, pfsArgs, pfsPc, acks, resolveCalls, outLog,
                   queryVars, connVars, scanVars, errVars, lateVars, updVars, evtVars>>

\* convertSet of one callback returns a result: the state is acknowledged,
\* then the sync instructions are applied
ConvertSetReturns(i, defined) ==
    /\ i \in 1..Len(items)
    /\ items[i].pc = "convertSet"
    /\ items' = [items EXCEPT ![i].pc = IF defined THEN "done" ELSE "undefinedResult"]
    /\ acks' = IF defined
               THEN acks \o AckOf(pfsArgs, pfsArgs.stateList[i])
                         \o SyncOf(pfsArgs, pfsArgs.stateList[i])
               ELSE acks
    /\ UNCHANGED <<spArg, hasToZigbee, spPc, spResult, pfsArgs, pfsPc, writes, resolveCalls, outLog,
                   unhandled, queryVars, connVars, scanVars, errVars, lateVars, updVars, evtVars>>

\* convertSet of one callback throws: the catch branch calls filterError,
\* which itself throws on an error without code and stack
ConvertSetThrows(i, err) ==
    /\ i \in 1..Len(items)
    /\ items[i].pc = "convertSet"
    /\ IF FilterError(err).pc = "threw"
       THEN /\ items' = [items EXCEPT ![i].pc = "rejected"]
            /\ unhandled' = unhandled + 1
            /\ UNCHANGED outLog
       ELSE /\ items' = [items EXCEPT ![i].pc = "failed"]
            /\ outLog' = outLog \o <<"Send command failed">>
            /\ UNCHANGED unhandled
    /\ UNCHANGED <<spArg, hasToZigbee, spPc, spResult, pfsArgs, pfsPc, writes, acks, resolveCalls,
                   queryVars, connVars, scanVars, errVars, lateVars, updVars, evtVars>>

OutNext ==
    \/ sendPayload
    \/ \E throws \in BOOLEAN : SendPayloadResolved(throws)
    \/ publishFromState
    \/ \E throws \in BOOLEAN : PublishResolved(throws)
    \/ SendPayloadReturns
    \/ \E i \in 1..MaxStates : \E ok \in BOOLEAN : TargetResolved(i, ok)
    \/ \E i \in 1..MaxStates : \E defined \in BOOLEAN : ConvertSetReturns(i, defined)
    \/ \E i \in 1..MaxStates : \E err \in ThrownErrors : ConvertSetThrows(i, err)

\* ======================= onZigbeeEvent ===================================
MaxFromZigbee == 2

EventTypes == {"attributeReport", "readResponse"}

Clusters == {"genOnOff", "64529"}

\* the message of the event: endpoint and data present or not; the key of
\* data the battery extraction stops at ("65282" with value[1][1], "65281"
\* with value[1]); its linkquality, 0 for 0 and for a missing one
Messages ==
    {m \in [hasEndpoint : BOOLEAN, hasData : BOOLEAN,
            battKey : {"none", "65282", "65281"}, linkquality : {0, 100}] :
        m.battKey # "none" => m.hasData}

\* entity.mapped: none, a model, a model with meta.battery.voltageToPercentage
MappedModels == {"none", "plain", "battery"}

\* a fromZigbee converter: its cluster and its type, a string or an array
FromZigbeeConverters ==
    [cluster : Clusters, type : (SUBSET EventTypes) \ {{}}]

\* Array.isArray(c.type) ? c.type.includes(t) : c.type === t
TypeMatches(c, t) ==
    t \in c.type

\* mappedModel.fromZigbee.filter(c => c.cluster === cl && type matches t),
\* as positions in declaration order
RECURSIVE FilterFrom(_, _, _, _)
FilterFrom(list, i, cl, t) ==
    IF i > Len(list) THEN <<>>
    ELSE (IF list[i].cluster = cl /\ TypeMatches(list[i], t) THEN <<i>> ELSE <<>>)
            \o FilterFrom(list, i + 1, cl, t)

\* a selection that never retries
FallbackType_Mutant(t) ==
    t

\* the type of the second filter
FallbackType(t) ==
    "attributeReport"

\* the converters handed to processConverters
SelectConverters(list, cl, t) ==
    LET direct == FilterFrom(list, 1, cl, t)
    IN  IF direct = <<>> /\ t = "readResponse"
        THEN FilterFrom(list, 1, cl, FallbackType(t))
        ELSE direct

\* onZigbeeEvent from the end of `await this.checkIfModelUpdate(entity)` to
\* its return or its first throw: the battery extraction reads message.data,
\* linkquality and the extracted values are published, the raw event reads message.endpoint.ID and is
\* published, the converters are selected and processConverters is called
\* (it runs to its first await, collectOptions of the first converter)
IsBattKey(msg, m) ==
    m = "battery" /\ msg.battKey # "none"

IsMessure(msg, m) ==
    m = "battery" /\ msg.battKey = "65281"

\* the publications of `if (message.linkquality) { ... }`
LegacyValues(msg, m) ==
    IF msg.linkquality # 0
    THEN <<"linkquality">>
            \o (IF IsBattKey(msg, m) THEN <<"voltage", "battery">> ELSE <<>>)
            \o (IF IsMessure(msg, m) THEN <<"temperature", "humidity">> ELSE <<>>)
    ELSE <<>>

EventBody(t, cl, msg, m, list) ==
    LET lq == LegacyValues(msg, m)
    IN  IF m = "battery" /\ ~msg.hasData
        THEN [promise |-> "rejected", published |-> <<>>, converters |-> <<>>,
              pc |-> "idle", log |-> <<>>]
        ELSE IF ~msg.hasEndpoint
        THEN [promise |-> "rejected", published |-> lq, converters |-> <<>>,
              pc |-> "idle", log |-> <<>>]
        ELSE IF m = "none"
        THEN [promise |-> "resolved", published |-> lq \o <<"msg_from_zigbee">>,
              converters |-> <<>>, pc |-> "idle", log |-> <<>>]
        ELSE LET convs == SelectConverters(list, cl, t)
             IN  IF convs = <<>>
                 THEN [promise |-> "resolved", published |-> lq \o <<"msg_from_zigbee">>,
                       converters |-> <<>>, pc |-> "idle",
                       log |-> IF t # "readResponse"
                               THEN <<"No converter available">> ELSE <<>>]
                 ELSE [promise |-> "resolved", published |-> lq \o <<"msg_from_zigbee">>,
                       converters |-> convs, pc |-> "collectOptions", log |-> <<>>]

EvtInit ==
    /\ type \in EventTypes
    /\ cluster \in Clusters
    /\ message \in Messages
    /\ mapped \in MappedModels
    /\ fromZigbee \in IF mapped = "none" THEN {<<>>}
                      ELSE SeqsUpTo(FromZigbeeConverters, MaxFromZigbee)
    /\ zePromise = "none"
    /\ converters = <<>>
    /\ convPc = "idle"
    /\ invoked = <<>>
    /\ published = <<>>
    /\ zeLog = <<>>
    /\ failedBefore = FALSE

\* the handling of the event has come to rest: onZigbeeEvent has returned or
\* thrown, and processConverters is not waiting for collectOptions
EventSettled ==
    /\ zePromise \in {"resolved", "rejected"}
    /\ convPc # "collectOptions"

\* the protocol layer emits 'event' for a device without elevated debug:
\* onZigbeeEvent runs up to `await this.checkIfModelUpdate(entity)`
\* (meta, converters and the loop of processConverters are locals of the
\* call: an event that follows another one of the device starts from empty
\* ones, with its own type and cluster and a message of the same form)
onZigbeeEvent ==
    /\ \/ zePromise = "none" /\ UNCHANGED <<type, cluster>>
       \/ /\ EventSettled
          /\ type' \in EventTypes
          /\ cluster' \in Clusters
    /\ zePromise' = "pending"
    /\ converters' = <<>>
    /\ convPc' = "idle"
    /\ invoked' = <<>>
    /\ published' = <<>>
    /\ zeLog' = <<>>
    /\ failedBefore' = (failedBefore \/ convPc = "failed")
    /\ UNCHANGED <<message, mapped, fromZigbee,
                   queryVars, connVars, scanVars, errVars, lateVars, updVars, outVars>>

\* checkIfModelUpdate has resolved: the rest of onZigbeeEvent runs
EventResumes ==
    /\ zePromise = "pending"
    /\ LET r == EventBody(type, cluster, message, mapped, fromZigbee)
       IN  /\ zePromise' = r.promise
           /\ published' = published \o r.published
           /\ converters' = r.converters
           /\ convPc' = r.pc
           /\ zeLog' = zeLog \o r.log
    /\ UNCHANGED <<type, cluster, message, mapped, fromZigbee, invoked, failedBefore,
                   queryVars, connVars, scanVars, errVars, lateVars, updVars, outVars>>

\* a catch that logs for every cluster
Silenced_Mutant(cl) ==
    FALSE

\* the .catch of onZigbeeEvent logs unless cluster !== '64529' fails
Silenced(cl) ==
    cl = "64529"

\* processConverters: collectOptions calls back and converter.convert is
\* invoked.  An object is published and the next converter is taken; any
\* other result leaves the promise of the loop body unresolved for good;
\* a throw rejects processConverters, which the .catch of onZigbeeEvent
\* logs unless the cluster is '64529'.
CollectOptionsCallback(outcome) ==
    /\ convPc = "collectOptions"
    /\ invoked' = Append(invoked, converters[Len(invoked) + 1])
    /\ CASE outcome = "object" ->
              /\ published' = Append(published, "payload")
              /\ convPc' = IF Len(invoked') = Len(converters) THEN "done" ELSE "collectOptions"
              /\ UNCHANGED zeLog
         [] outcome = "nothing" ->
              /\ convPc' = "unresolved"
              /\ UNCHANGED <<published, zeLog>>
         [] outcome = "throws" ->
              /\ convPc' = "failed"
              /\ zeLog' = zeLog \o (IF Silenced(cluster)
                                    THEN <<>> ELSE <<"Error while processing converters">>)
              /\ UNCHANGED published
    /\ UNCHANGED <<type, cluster, message, mapped, fromZigbee, zePromise, converters,
                   failedBefore, queryVars, connVars, scanVars, errVars, lateVars, updVars, outVars>>

EvtNext ==
    \/ onZigbeeEvent
    \/ EventResumes
    \/ \E outcome \in {"object", "nothing", "throws"} : CollectOptionsCallback(outcome)

\* ======================= onZigbeeAdapterReady (resynchronisation) ========
NumKnown == 3

\* positions of the devices getClientIterator(false) yields, in its order
Known(n) == 1..n

\* a loop that hands over to the plugins after its first device
LoopDone_Mutant(d, n) ==
    TRUE

\* `for (const device of devicesFromDB)` has no device after the d-th
LoopDone(d, n) ==
    d >= n

\* the synchronous stretch that follows the handling of the d-th device: the
\* next resolveEntity is called, or the loop is left and
\* callPluginMethod('start', ...) calls the first plugin's start
AfterDevice(d, n, order) ==
    IF LoopDone(d, n)
    THEN [pc |-> "pluginStart", dev |-> d,
          order |-> Append(order, [step |-> "pluginStart", dev |-> 0])]
    ELSE [pc |-> "resolveEntity", dev |-> d + 1, order |-> order]

RdyInit ==
    /\ known \in 0..NumKnown
    /\ rdyPc = "setState"
    /\ rdyDev = 0
    /\ resync = [d \in Known(known) |-> "none"]
    /\ rdyOrder = <<>>

\* `await this.setState('info.connection', true, true)` has settled.  When it
\* resolved, CleanupRequired(false) and the device iterator follow, then the
\* loop up to its first await; when it rejected the handler ends.
ConnectionPublished(ok) ==
    /\ rdyPc = "setState"
    /\ IF ok
       THEN LET r == AfterDevice(0, known,
                                 Append(rdyOrder, [step |-> "connection", dev |-> 0]))
            IN  /\ rdyPc' = r.pc
                /\ rdyDev' = r.dev
                /\ rdyOrder' = r.order
       ELSE /\ rdyPc' = "rejected"
            /\ UNCHANGED <<rdyDev, rdyOrder>>
    /\ UNCHANGED <<known, resync, earlyVars, getVars, sendVars, unloadVars>>

\* `await this.zbController.resolveEntity(device)` has settled for the device
\* of the loop: with an entity updateDev is called, with its callback left
\* pending; without one a warning is logged; a rejection ends the handler.
\* The loop then goes on in the same stretch.
EntityResolved(outcome) ==
    /\ rdyPc = "resolveEntity"
    /\ IF outcome = "throws"
       THEN /\ rdyPc' = "rejected"
            /\ UNCHANGED <<rdyDev, rdyOrder, resync>>
       ELSE LET did == Append(rdyOrder, [step |-> "resolveEntity", dev |-> rdyDev])
                r   == AfterDevice(rdyDev, known,
                          IF outcome = "entity"
                          THEN Append(did, [step |-> "updateDev", dev |-> rdyDev])
                          ELSE did)
            IN  /\ rdyPc' = r.pc
                /\ rdyDev' = r.dev
                /\ rdyOrder' = r.order
                /\ resync' = [resync EXCEPT ![rdyDev] =
                                  IF outcome = "entity" THEN "updateDev" ELSE "noEntity"]
    /\ UNCHANGED <<known, earlyVars, getVars, sendVars, unloadVars>>

\* the callback handed to updateDev runs: it calls syncDevStates(device,
\* model) and returns its promise, which nothing awaits
UpdateDevCallback(d) ==
    /\ d \in Known(known)
    /\ resync[d] = "updateDev"
    /\ resync' = [resync EXCEPT ![d] = "syncDevStates"]
    /\ UNCHANGED <<known, rdyPc, rdyDev, rdyOrder, earlyVars, getVars, sendVars, unloadVars>>

\* syncDevStates of the device has settled
SyncDevStatesSettles(d, ok) ==
    /\ d \in Known(known)
    /\ resync[d] = "syncDevStates"
    /\ resync' = [resync EXCEPT ![d] = IF ok THEN "synced" ELSE "syncFailed"]
    /\ rdyOrder' = IF ok THEN Append(rdyOrder, [step |-> "synced", dev |-> d])
                   ELSE rdyOrder
    /\ UNCHANGED <<known, rdyPc, rdyDev, earlyVars, getVars, sendVars, unloadVars>>

\* `await this.callPluginMethod('start', ...)` has settled
PluginStartSettles(threw) ==
    /\ rdyPc = "pluginStart"
    /\ rdyPc' = IF threw THEN "rejected" ELSE "done"
    /\ UNCHANGED <<known, rdyDev, resync, rdyOrder, earlyVars, getVars, sendVars, unloadVars>>

RdyNext ==
    \/ \E ok \in BOOLEAN : ConnectionPublished(ok)
    \/ \E outcome \in {"entity", "none", "throws"} : EntityResolved(outcome)
    \/ \E d \in 1..NumKnown : UpdateDevCallback(d)
    \/ \E d \in 1..NumKnown : \E ok \in BOOLEAN : SyncDevStatesSettles(d, ok)
    \/ \E threw \in BOOLEAN : PluginStartSettles(threw)

\* ======================= device_query read sequence ======================
MaxGetConverters == 2

\* converter.key: an array of keys, no key twice
KeyArrays ==
    {ks \in SeqsUpTo(Keys, 2) : \A i, j \in 1..Len(ks) : ks[i] = ks[j] => i = j}

\* a toZigbee converter as the read loop sees it: with or without
\* convertGet, with a key array or keyless
GetConverters ==
    [convertGet : BOOLEAN, hasKey : {TRUE}, key : KeyArrays]
        \cup [convertGet : BOOLEAN, hasKey : {FALSE}, key : {<<>>}]

\* entity.device.endpoints[0]
FirstEndpoint == 1

\* `for (const ckey of converter.key)` can iterate: converter.key is an array
KeysIterable(c) ==
    c.hasKey

\* the loops `for (const converter of mappedModel.toZigbee)` and `for (const
\* ckey of converter.key)` from the k-th key of the c-th converter on, up to
\* the next convertGet call, the end of the loops, or the TypeError of
\* iterating the key of a keyless converter
RECURSIVE NextRead(_, _, _)
NextRead(list, c, k) ==
    IF c > Len(list) THEN [pc |-> "done", conv |-> 0, key |-> 0]
    ELSE IF ~list[c].convertGet THEN NextRead(list, c + 1, 1)
    ELSE IF ~KeysIterable(list[c]) THEN [pc |-> "threw", conv |-> c, key |-> 0]
    ELSE IF k > Len(list[c].key) THEN NextRead(list, c + 1, 1)
    ELSE [pc |-> "reading", conv |-> c, key |-> k]

\* what the loops do when they get to position r: call convertGet on the
\* first endpoint; or log that the query is done and arm the cool-down
\* timer; or throw, which leaves the callback with nothing armed
Proceed(list, r, rds, lg) ==
    [pc    |-> r.pc,
     at    |-> [conv |-> r.conv, key |-> r.key],
     reads |-> IF r.pc = "reading"
               THEN Append(rds, [key |-> list[r.conv].key[r.key], endpoint |-> FirstEndpoint])
               ELSE rds,
     log   |-> IF r.pc = "done" THEN Append(lg, "Device query done") ELSE lg,
     armed |-> r.pc = "done"]

GetInit ==
    /\ getList \in SeqsUpTo(GetConverters, MaxGetConverters)
    /\ getPc = "idle"
    /\ getAt = [conv |-> 0, key |-> 0]
    /\ getReads = <<>>
    /\ getLog = <<>>
    /\ getArmed = FALSE

\* the device_query state of a device that is not blocked is activated: the
\* device is pushed to query_device_block and the loops run to the first
\* convertGet call
QueryStarts ==
    /\ getPc = "idle"
    /\ LET r == Proceed(getList, NextRead(getList, 1, 1), getReads,
                        Append(getLog, "Device query started"))
       IN  /\ getPc' = r.pc
           /\ getAt' = r.at
           /\ getReads' = r.reads
           /\ getLog' = r.log
           /\ getArmed' = r.armed
    /\ UNCHANGED <<getList, earlyVars, rdyVars, sendVars, unloadVars>>

\* `await converter.convertGet(...)` settles: a rejection is caught and
\* logged; the loops go on with the next key
ReadSettles(ok) ==
    /\ getPc = "reading"
    /\ LET r == Proceed(getList, NextRead(getList, getAt.conv, getAt.key + 1), getReads,
                        IF ok THEN getLog ELSE Append(getLog, "failed to read state"))
       IN  /\ getPc' = r.pc
           /\ getAt' = r.at
           /\ getReads' = r.reads
           /\ getLog' = r.log
           /\ getArmed' = r.armed
    /\ UNCHANGED <<getList, earlyVars, rdyVars, sendVars, unloadVars>>

GetNext ==
    \/ QueryStarts
    \/ \E ok \in BOOLEAN : ReadSettles(ok)

\* ======================= specifications ==================================
vars == <<queryVars, connVars, scanVars, errVars, restVars>>

\* the lifecycle before onReady, for the specifications of other components
ConnIdle ==
    /\ port = "serial"
    /\ phase = "constructed"
    /\ reconnectCounter = 0
    /\ reconnectTimer = 0
    /\ timers = <<>>
    /\ connection = "unset"
    /\ callbacks = 0
    /\ starting = 0
    /\ stopping = 0
    /\ readying = 0
    /\ lastStep = [handler |-> "constructor", log |-> <<>>]

\* no device_query issued
QueryIdle ==
    /\ query_device_block = <<>>
    /\ getKeys = [d \in Devices |-> 0]
    /\ readSeqs = [d \in Devices |-> <<>>]
    /\ cooldownTimers = <<>>
    /\ queryLog = [dev |-> 0, outcome |-> "none"]

\* no state write under way
ScanIdle ==
    /\ toZigbee = <<>>
    /\ stateDesc = [id |-> "state", prop |-> Undefined, setattr |-> Undefined]
    /\ converter = 0
    /\ scanPc = "idle"

\* no error being classified
ErrIdle ==
    /\ error = [code |-> NoCode, stack |-> <<>>]
    /\ errLog = <<>>
    /\ errSent = <<>>
    /\ errPc = "idle"

\* no inbound event yet, the device object of the resolved model in place
UpdIdle ==
    /\ devObj = "new"
    /\ stateTree = {NewEntries}
    /\ evPc = [e \in Events |-> "idle"]
    /\ evChain = [e \in Events |-> {}]
    /\ evFound = [e \in Events |-> "nothing"]

\* no sendPayload call and no 'changed' event
OutIdle ==
    /\ spArg = NoCall
    /\ spPc = "idle"
    /\ spResult = NoResult
    /\ pfsArgs = NoArgs
    /\ pfsPc = "idle"
    /\ items = <<>>
    /\ writes = <<>>
    /\ acks = <<>>
    /\ resolveCalls = <<>>
    /\ outLog = <<>>
    /\ unhandled = 0
    /\ hasToZigbee = TRUE

\* no inbound event being handled
EvtIdle ==
    /\ type = "attributeReport"
    /\ cluster = "genOnOff"
    /\ message = [hasEndpoint |-> TRUE, hasData |-> TRUE, battKey |-> "none",
                  linkquality |-> 0]
    /\ mapped = "none"
    /\ fromZigbee = <<>>
    /\ zePromise = "none"
    /\ converters = <<>>
    /\ convPc = "idle"
    /\ invoked = <<>>
    /\ published = <<>>
    /\ zeLog = <<>>
    /\ failedBefore = FALSE

\* no 'ready' being handled
RdyIdle ==
    /\ known = 0
    /\ rdyPc = "idle"
    /\ rdyDev = 0
    /\ resync = <<>>
    /\ rdyOrder = <<>>

\* no read sequence under way
GetIdle ==
    /\ getList = <<>>
    /\ getPc = "idle"
    /\ getAt = [conv |-> 0, key |-> 0]
    /\ getReads = <<>>
    /\ getLog = <<>>
    /\ getArmed = FALSE

\* ======================= the send_payload state ==========================
\* the text of a send_payload state: the JSON text of an object or of a
\* string, or a text that is not JSON
SendValues ==
    [kind : {"json"}, payload : PayloadFields \ {[kind |-> "absent", pairs |-> <<>>]}]
        \cup {[kind |-> "bad", payload |-> [kind |-> "absent", pairs |-> <<>>]]}

\* what the state tree calls publishFromState with for a send_payload
\* state; for a group deviceId = parseInt(deviceId), a number
SendArgs ==
    {a \in [deviceId : {IeeeId("aabbcc"), IeeeId("ccddee"), IeeeId("ffffff"), GroupId("1")},
            model : {"lamp", "group"},
            value : SendValues] :
        (a.model = "group") <=> (a.deviceId.kind = "group")}

NoSend ==
    [deviceId |-> IeeeId(Absent), model |-> "",
     value |-> [kind |-> "bad", payload |-> [kind |-> "absent", pairs |-> <<>>]]]

\* an acknowledgement that does not look at the result
SendAck_Mutant(result) ==
    TRUE

\* result.hasOwnProperty('success') && result.success
SendAck(result) ==
    result.success

\* the try block of the send_payload branch up to `await this.sendPayload`:
\* JSON.parse(value) throws on a text that is not JSON, deviceId.replace
\* throws on the number a group has; both end in the catch, which warns
SendPayloadBranch(args) ==
    IF args.value.kind # "json" \/ args.deviceId.kind # "ieee"
    THEN [pc |-> "warned", call |-> NoCall, log |-> <<"does not parse as JSON Object">>]
    ELSE [pc |-> "sendPayload",
          call |-> [kind |-> "object",
                    obj |-> [device |-> args.deviceId.name, payload |-> args.value.payload]],
          log |-> <<>>]

SendInit ==
    /\ toZigbee \in OutToZigbee
    /\ hasToZigbee \in {h \in BOOLEAN : ~h => toZigbee = <<>>}
    /\ stateDesc = [id |-> "state", prop |-> Undefined, setattr |-> Undefined]
    /\ converter = 0
    /\ scanPc = "idle"
    /\ spArg = NoCall
    /\ spPc = "idle"
    /\ spResult = NoResult
    /\ pfsArgs = NoArgs
    /\ pfsPc = "idle"
    /\ items = <<>>
    /\ writes = <<>>
    /\ acks = <<>>
    /\ resolveCalls = <<>>
    /\ outLog = <<>>
    /\ unhandled = 0
    /\ ssArgs \in SendArgs
    /\ ssPc = "idle"
    /\ ssAcks = <<>>
    /\ ssLog = <<>>

\* the state tree's 'changed' event calls publishFromState with the
\* send_payload state, up to `await this.zbController.resolveEntity(deviceId)`
SendStateChanged ==
    /\ ssPc = "idle"
    /\ ssArgs # NoSend
    /\ ssPc' = "resolveEntity"
    /\ UNCHANGED <<ssArgs, ssAcks, ssLog, earlyVars, rdyVars, getVars, unloadVars>>

\* resolveEntity(deviceId) settles: the early returns of publishFromState,
\* or the forEach callback of the send_payload state runs to its await
SendStateResolved(throws) ==
    /\ ssPc = "resolveEntity"
    /\ LET entity == ResolveEntity(ssArgs.deviceId)
           r      == SendPayloadBranch(ssArgs)
       IN  /\ throws => entity = "none"
           /\ IF throws
              THEN /\ ssPc' = "returned"
                   /\ ssLog' = ssLog \o <<"No entity for">>
                   /\ UNCHANGED spArg
              ELSE IF ~HasMappedModel(entity)
              THEN /\ ssPc' = "returned"
                   /\ UNCHANGED <<ssLog, spArg>>
              ELSE IF ~HasConverterList(hasToZigbee)
              THEN /\ ssPc' = "returned"
                   /\ ssLog' = ssLog \o <<"No toZigbee in mapped model">>
                   /\ UNCHANGED spArg
              ELSE /\ ssPc' = r.pc
                   /\ ssLog' = ssLog \o r.log
                   /\ spArg' = r.call
    /\ UNCHANGED <<ssArgs, ssAcks, hasToZigbee, spPc, spResult, pfsArgs, pfsPc, items, writes,
                   acks, resolveCalls, outLog, unhandled, queryVars, connVars, scanVars,
                   errVars, updVars, evtVars, rdyVars, getVars, unloadVars>>

\* `await this.sendPayload(payload)` settles: the state is acknowledged when
\* the result says success; a throw ends in the catch
SendPayloadSettles ==
    /\ ssPc = "sendPayload"
    /\ spPc \in {"returned", "threw"}
    /\ IF spPc = "threw"
       THEN /\ ssPc' = "warned"
            /\ ssLog' = ssLog \o <<"does not parse as JSON Object">>
            /\ UNCHANGED ssAcks
       ELSE /\ ssPc' = "returned"
            /\ ssAcks' = IF SendAck(spResult)
                         THEN ssAcks \o << [id |-> "send_payload", kind |-> "state",
                                            value |-> ssArgs.value] >>
                         ELSE ssAcks
            /\ UNCHANGED ssLog
    /\ UNCHANGED <<ssArgs, earlyVars, rdyVars, getVars, unloadVars>>

\* the call and the sendPayload it makes
SendNext ==
    \/ SendStateChanged
    \/ \E throws \in BOOLEAN : SendStateResolved(throws)
    \/ sendPayload
    \/ \E throws \in BOOLEAN : SendPayloadResolved(throws)
    \/ \E throws \in BOOLEAN : PublishResolved(throws)
    \/ SendPayloadReturns
    \/ \E i \in 1..MaxPayloadKeys, ok \in BOOLEAN : TargetResolved(i, ok)
    \/ \E i \in 1..MaxPayloadKeys, defined \in BOOLEAN : ConvertSetReturns(i, defined)
    \/ \E i \in 1..MaxPayloadKeys, err \in ThrownErrors : ConvertSetThrows(i, err)
    \/ SendPayloadSettles

\* no send_payload state changed
SendIdle ==
    /\ ssArgs = NoSend
    /\ ssPc = "idle"
    /\ ssAcks = <<>>
    /\ ssLog = <<>>

\* ======================= onUnload =======================================
\* this.zbController is assigned in onReady
HasController(ph) ==
    ph # "constructed"

\* if (this.reconnectTimer) clearTimeout(this.reconnectTimer)
UnloadClear(tms, handle) ==
    IF handle # 0 THEN ClearTimeout(tms, handle) ELSE tms

\* onUnload up to `await this.callPluginMethod('stop')`
onUnload ==
    /\ unloadPc = "idle"
    /\ unloadPc' = "pluginStop"
    /\ timers' = UnloadClear(timers, reconnectTimer)
    /\ UNCHANGED <<unloadCallbacks, controllerStops, port, phase, reconnectCounter, reconnectTimer,
                   connection, callbacks, starting, stopping, readying, lastStep,
                   queryVars, scanVars, errVars, updVars, outVars, evtVars,
                   rdyVars, getVars, sendVars>>

\* callPluginMethod('stop') settles: it rethrows what a plugin's stop threw,
\* which takes onUnload to its catch branch (log.error, sendError,
\* callback()); otherwise zbController.stop()
\* is called when a controller exists, else the callback
UnloadPluginStopSettles(threw) ==
    /\ unloadPc = "pluginStop"
    /\ IF threw
       THEN /\ unloadPc' = "done"
            /\ unloadCallbacks' = unloadCallbacks + 1
            /\ UNCHANGED controllerStops
       ELSE IF HasController(phase)
       THEN /\ unloadPc' = "controllerStop"
            /\ controllerStops' = controllerStops + 1
            /\ UNCHANGED unloadCallbacks
       ELSE /\ unloadPc' = "done"
            /\ unloadCallbacks' = unloadCallbacks + 1
            /\ UNCHANGED controllerStops
    /\ UNCHANGED <<earlyVars, rdyVars, getVars, sendVars>>

\* zbController.stop() settles: callback(), from the try block or from the
\* catch branch
ControllerStopSettles(rejects) ==
    /\ unloadPc = "controllerStop"
    /\ unloadPc' = "done"
    /\ unloadCallbacks' = unloadCallbacks + 1
    /\ UNCHANGED <<controllerStops, earlyVars, rdyVars, getVars, sendVars>>

\* the connection lifecycle with the unload the framework may request at
\* any time
UnloadNext ==
    \/ ConnNext
    \/ onUnload
    \/ \E threw \in BOOLEAN : UnloadPluginStopSettles(threw)
    \/ \E rejects \in BOOLEAN : ControllerStopSettles(rejects)

\* onUnload was not called
UnloadIdle ==
    /\ unloadPc = "idle"
    /\ unloadCallbacks = 0
    /\ controllerStops = 0

LateIdle == RdyIdle /\ GetIdle /\ SendIdle /\ UnloadIdle

RestIdle == UpdIdle /\ OutIdle /\ EvtIdle /\ LateIdle

InitQuery == QueryInit /\ ConnIdle /\ ScanIdle /\ ErrIdle /\ RestIdle
SpecQuery == InitQuery /\ [][QueryNext]_vars

InitConn == ConnInit /\ QueryIdle /\ ScanIdle /\ ErrIdle /\ RestIdle
SpecConn == InitConn /\ [][ConnNext]_vars

InitScan == ScanInit /\ QueryIdle /\ ConnIdle /\ ErrIdle /\ RestIdle
SpecScan == InitScan /\ [][ScanNext]_vars

InitErr == ErrInit /\ QueryIdle /\ ConnIdle /\ ScanIdle /\ RestIdle
SpecErr == InitErr /\ [][ErrNext]_vars

InitUpd == UpdInit /\ QueryIdle /\ ConnIdle /\ ScanIdle /\ ErrIdle /\ OutIdle /\ EvtIdle
               /\ LateIdle
SpecUpd == InitUpd /\ [][UpdNext]_vars

\* every callback the state tree owes is eventually delivered
SpecUpdFair == SpecUpd /\ WF_vars(UpdNext)

InitOut == OutInit /\ QueryIdle /\ ConnIdle /\ ErrIdle /\ UpdIdle /\ EvtIdle /\ LateIdle
SpecOut == InitOut /\ [][OutNext]_vars

InitEvt == EvtInit /\ QueryIdle /\ ConnIdle /\ ScanIdle /\ ErrIdle /\ UpdIdle /\ OutIdle
               /\ LateIdle
SpecEvt == InitEvt /\ [][EvtNext]_vars

InitRdy == RdyInit /\ QueryIdle /\ ConnIdle /\ ScanIdle /\ ErrIdle /\ UpdIdle /\ OutIdle
               /\ EvtIdle /\ GetIdle /\ SendIdle /\ UnloadIdle
SpecRdy == InitRdy /\ [][RdyNext]_vars

InitGet == GetInit /\ QueryIdle /\ ConnIdle /\ ScanIdle /\ ErrIdle /\ UpdIdle /\ OutIdle
               /\ EvtIdle /\ RdyIdle /\ SendIdle /\ UnloadIdle
SpecGet == InitGet /\ [][GetNext]_vars

InitSend == SendInit /\ QueryIdle /\ ConnIdle /\ ErrIdle /\ UpdIdle /\ EvtIdle /\ RdyIdle
               /\ GetIdle /\ UnloadIdle
SpecSend == InitSend /\ [][SendNext]_vars

InitUnload == ConnInit /\ UnloadIdle /\ QueryIdle /\ ScanIdle /\ ErrIdle /\ UpdIdle /\ OutIdle
               /\ EvtIdle /\ RdyIdle /\ GetIdle /\ SendIdle
SpecUnload == InitUnload /\ [][UnloadNext]_vars

\* ======================= claims: device_query ============================
InBlock(d) == IndexOf(query_device_block, d) > -1

CoolingDown(d) == \E i \in 1..Len(cooldownTimers) : cooldownTimers[i] = d

\* C1: for every device at most one device_query read sequence (the
\* convertGet loop) is in flight at any time; a trigger that arrives while
\* the device's read sequence is running starts no reads.
C1_AtMostOneReadSequence ==
    \A d \in Devices : Len(readSeqs[d]) <= 1

\* C2: a device stays in query_device_block from the start of its query
\* until its own cool-down timer fires: while its read sequence runs or its
\* cool-down is pending it is blocked, so a trigger in that window reads
\* nothing, and no other device's cool-down expiry removes it.
C2_BlockedUntilOwnCooldown ==
    \A d \in Devices : (readSeqs[d] # <<>> \/ CoolingDown(d)) => InBlock(d)

\* ======================= claims: connection lifecycle ====================
FailedAttempt(step) ==
    \E i \in 1..Len(step.log) : step.log[i] = "Failed to start Zigbee"

\* C3: in every reachable state at most one reconnect timer is pending.
C3_AtMostOneReconnectTimer ==
    Len(timers) <= 1

C5_TcpAlwaysRetries ==
    port = "tcp" =>
        /\ phase # "constructed" => reconnectCounter \in {1, RECONNECT_CEILING}
        /\ (\/ FailedAttempt(lastStep)
            \/ lastStep.handler = "startRejected"
            \/ (lastStep.handler = "onZigbeeAdapterDisconnected" /\ Len(lastStep.log) = 2)
            \/ lastStep.handler = "tryToReconnect")
           => timers # <<>>

\* C6 (as claimed): after onZigbeeAdapterReady the counter is 1 and no
\* reconnect timer is pending.
C6_ReadyResetsCounterAndTimers ==
    lastStep = [handler |-> "onZigbeeAdapterReady", log |-> <<"Zigbee started">>] =>
        reconnectCounter = 1 /\ timers = <<>>

\* C6 (amended): onZigbeeAdapterReady clears the timer this.reconnectTimer
\* refers to (the most recently armed one) and nothing else, and leaves the
\* counter as it is; the counter is set to 1 by onReady, before the first
\* connect attempt.
C6_ReadyClearsLastTimer ==
    [][/\ lastStep' = [handler |-> "onZigbeeAdapterReady", log |-> <<"Zigbee started">>] =>
              /\ reconnectCounter' = reconnectCounter
              /\ \A i \in 1..Len(timers') : timers'[i] # reconnectTimer
              /\ \A i \in 1..Len(timers) :
                    timers[i] # reconnectTimer => \E j \in 1..Len(timers') : timers'[j] = timers[i]
       /\ lastStep'.handler = "onReady" => reconnectCounter' = 1
    ]_vars

\* C6 witness: ready was signalled after a retry, the counter is not 1, the
\* last armed timer is gone and an earlier one is still pending
C6_Witness ==
    /\ lastStep = [handler |-> "onZigbeeAdapterReady", log |-> <<"Zigbee started">>]
    /\ reconnectTimer # 0
    /\ reconnectCounter = RECONNECT_CEILING - 1
    /\ timers # <<>>

\* ======================= claims: converter scan ==========================
\* positions of the converters with convertSet whose key set holds the
\* state's prop, setattr or id
KeyedMatches ==
    {i \in 1..Len(toZigbee) :
        /\ toZigbee[i].convertSet
        /\ toZigbee[i].hasKey
        /\ \E k \in {stateDesc.prop, stateDesc.setattr, stateDesc.id} : k \in toZigbee[i].key}

\* C7: whenever some converter with convertSet has a key set containing the
\* state's prop, setattr or id, the scan selects the last such converter in
\* declaration order, never a keyless one.
C7_LastKeyedMatchWins ==
    (scanPc = "scanned" /\ KeyedMatches # {}) =>
        /\ converter \in KeyedMatches
        /\ \A i \in KeyedMatches : i <= converter

\* C7 witness: [{key:[A]}, {no key}, {key:[B,A]}] and a write to A selects the third
C7_Witness ==
    /\ scanPc = "scanned"
    /\ Len(toZigbee) = 3
    /\ toZigbee[1] = [convertSet |-> TRUE, hasKey |-> TRUE, key |-> {"state"}]
    /\ toZigbee[2] = [convertSet |-> TRUE, hasKey |-> FALSE, key |-> {}]
    /\ toZigbee[3] = [convertSet |-> TRUE, hasKey |-> TRUE, key |-> {"brightness", "state"}]
    /\ stateDesc.id = "state"
    /\ converter = 3

\* ======================= claims: filterError =============================
\* the log level and message the table declares for a code
DeclaredLevel(c) ==
    CASE c = 9999 -> "info" [] c = 233 -> "debug" [] c = 205 -> "warn" [] c = 134 -> "warn"

DeclaredMessage(c) ==
    CASE c = 9999 -> "No response" [] c = 233 -> "MAC NO ACK"
      [] c = 205 -> "No network route" [] c = 134 -> "Unsupported Attribute"

\* C8: for every error whose code is in the table (9999, 233, 205, 134)
\* filterError writes one line, at the log level of the declared severity
\* and with the declared message, and calls sendError only for ERROR
\* severity (which no entry of the table has).
C8_TableCodeClassified ==
    (errPc # "idle" /\ error.code \in {9999, 233, 205, 134}) =>
        /\ errPc = "returned"
        /\ Len(errLog) = 1
        /\ errLog[1].level = DeclaredLevel(error.code)
        /\ errLog[1].kind = "Code"
        /\ errLog[1].code = error.code
        /\ errLog[1].msg = DeclaredMessage(error.code)
        /\ (errSent # <<>>) <=> (DeclaredLevel(error.code) = "error")

C8_Witness ==
    /\ errPc = "returned"
    /\ error.code = 233
    /\ errLog = <<LogLine("debug", "Code", 233, "MAC NO ACK", <<>>)>>
    /\ errSent = <<>>

\* C9 (as claimed): an error whose numeric code is absent from the table is
\* reported at ERROR severity with a "malformed error" tag and sent to
\* telemetry.
C9_AbsentCodeMalformedTag ==
    (errPc # "idle" /\ error.code # NoCode /\ error.code \notin {9999, 233, 205, 134}) =>
        /\ errPc = "returned"
        /\ \E i \in 1..Len(errLog) :
              errLog[i].level = "error" /\ errLog[i].msg = "malformed error"
        /\ errSent # <<>>

\* C9 (amended): an error whose numeric code is absent from the table is
\* logged at error level with the caller's errormessage and sent to
\* telemetry with that same message; no "malformed error" tag is written.
C9_AbsentCodeErrorMessage ==
    (errPc # "idle" /\ error.code # NoCode /\ error.code \notin {9999, 233, 205, 134}) =>
        /\ errPc = "returned"
        /\ errLog = <<LogLine("error", "errormessage", error.code, "", <<>>)>>
        /\ errSent = <<"errormessage">>

C9_Witness ==
    /\ errPc = "returned"
    /\ error.code \in AbsentCodes
    /\ Len(errLog) = 1
    /\ errLog[1].level = "error"
    /\ errSent = <<"errormessage">>

\* the error has no code and its stack reads "failed (N) at" or "failed (N)"
StackNamesCode(err) ==
    /\ err # NullError
    /\ err.code = NoCode
    /\ err.stack # NoStack
    /\ Len(ExtractCode(err.stack)) = 1
    /\ ExtractCode(err.stack)[1] \in DOMAIN CodeOfText

\* C10 (as claimed): an error without a code whose stack matches
\* "failed (N) at" or "failed (N)" is classified exactly as an error with
\* code N: same log level, same telemetry decision.
C10_ExtractedCodeClassified ==
    (errPc # "idle" /\ StackNamesCode(error)) =>
        LET n == CodeOfText[ExtractCode(error.stack)[1]]
            r == FilterError([code |-> n, stack |-> error.stack])
        IN  /\ errPc = r.pc
            /\ errLog[1].level = r.log[1].level
            /\ (errSent = <<>>) <=> (r.sent = <<>>)

\* C10 (amended): an error without a code that has a stack is always
\* logged at error level as "no error code (N)" and sent to telemetry,
\* whatever N is; N is the capture of the first pattern, else of the second,
\* else 'undefined', and is used for the log line only.
C10_NoCodeAlwaysError ==
    (errPc # "idle" /\ error # NullError /\ error.code = NoCode /\ error.stack # NoStack) =>
        /\ errPc = "returned"
        /\ errLog[1].level = "error"
        /\ errLog[1].kind = "no error code"
        /\ errSent = <<"no error code">>
        /\ StackNamesCode(error) => errLog[1].em = ExtractCode(error.stack)
        /\ (\A i \in 1..Len(error.stack) : error.stack[i] # "failed (")
              => errLog[1].em = <<"undefined">>

\* C10 witness: the stack reads "failed (233) at", 233 is a DEBUG code of
\* the table, and the error was logged at error level and sent
C10_Witness ==
    /\ errPc = "returned"
    /\ error = [code |-> NoCode, stack |-> <<"failed (", "233", ")", " at">>]
    /\ errLog[1].level = "error"
    /\ errLog[1].em = <<"233">>
    /\ errSent # <<>>

\* ======================= claims: checkIfModelUpdate ======================
\* some event up to e found the stored type different from the resolved model
MismatchFoundUpTo(e) ==
    \E f \in Events : f <= e /\ evFound[f] \in {"differs", "listFailed"}

NoPriorEntryLeft ==
    stateTree \cap PriorEntries = {}

Quiescent ==
    /\ spPc \in {"returned", "threw"} \/ spArg = NoCall
    /\ pfsPc \in {"idle", "returned"}
    /\ \A i \in 1..Len(items) : items[i].pc \notin {"resolveEntity", "convertSet"}

\* the mapped model has a converter with convertSet whose key set holds k
Accepts(k) ==
    \E i \in 1..Len(toZigbee) :
        toZigbee[i].convertSet /\ toZigbee[i].hasKey /\ k \in toZigbee[i].key

\* sendPayload was called with the object {device: "aabbcc", payload: {k: v}},
\* the device resolved at every lookup, and everything has settled
SingleKeyWriteSettled ==
    /\ spArg.kind = "object"
    /\ spArg.obj.device = "aabbcc"
    /\ spArg.obj.payload.kind = "object"
    /\ Len(spArg.obj.payload.pairs) = 1
    /\ Accepts(spArg.obj.payload.pairs[1].key)
    /\ Quiescent
    /\ \A i \in 1..Len(items) : items[i].pc # "noTarget"

\* C12 (as claimed): sendPayload with {device, payload: {k: v}} for a
\* resolvable mapped device with a converter accepting k returns
\* {success: true} and convertSet is invoked exactly once, with key k and
\* value v.
C12_OneWritePerKey ==
    SingleKeyWriteSettled =>
        /\ spResult = Success
        /\ Len(writes) = 1
        /\ writes[1].key = spArg.obj.payload.pairs[1].key
        /\ writes[1].value = spArg.obj.payload.pairs[1].value

\* C12 (amended): the same for every value v other than null; for v = null
\* sendPayload returns {success: true} and convertSet is not invoked.
C12_OneWritePerDefinedKey ==
    SingleKeyWriteSettled =>
        /\ spResult = Success
        /\ IF spArg.obj.payload.pairs[1].value = JsNull
           THEN writes = <<>>
           ELSE /\ Len(writes) = 1
                /\ writes[1].key = spArg.obj.payload.pairs[1].key
                /\ writes[1].value = spArg.obj.payload.pairs[1].value
                /\ writes[1].target = [kind |-> "endpoint", name |-> "aabbcc"]

\* C12 witness: {device: "aabbcc", payload: {state: "ON"}} wrote state = ON once
C12_Witness ==
    /\ SingleKeyWriteSettled
    /\ spArg.obj.payload.pairs = << [key |-> "state", value |-> ValueOn] >>
    /\ spResult = Success
    /\ writes = << [target |-> [kind |-> "endpoint", name |-> "aabbcc"],
                    key |-> "state", value |-> ValueOn] >>

\* C13: sendPayload with a string that is not valid JSON returns
\* {success: false, error: <parse failure>} and touches the protocol layer
\* nowhere: no resolveEntity call, no publishFromState, no convertSet.
C13_ParseFailureIsLocal ==
    (spArg.kind = "badString" /\ spPc # "idle") =>
        /\ spPc = "returned"
        /\ spResult = Failure("Unable to parse")
        /\ resolveCalls = <<>>
        /\ pfsPc = "idle"
        /\ items = <<>>
        /\ writes = <<>>

C13_Witness ==
    /\ spArg.kind = "badString"
    /\ spPc = "returned"
    /\ spResult = [success |-> FALSE, error |-> "Unable to parse"]
    /\ outLog = <<"Unable to parse">>

\* C14: sendPayload with the JSON text of an object P behaves as sendPayload
\* with P itself: the same first step (the lookup of P's device, or the same
\* failure result), and {success: true} wherever P's device is mapped and
\* P's payload is an object.
C14_StringSameAsObject ==
    (spArg.kind = "string" /\ spPc # "idle") =>
        LET r == SendPayloadCall([kind |-> "object", obj |-> spArg.obj])
        IN  /\ r.pc = "returned" => (spPc = "returned" /\ spResult = r.result)
            /\ r.pc = "resolveEntity" =>
                  /\ resolveCalls # <<>>
                  /\ Head(resolveCalls) = Head(r.resolve)
                  /\ (/\ Quiescent
                      /\ ResolveEntity(Head(r.resolve)) = "mapped"
                      /\ spArg.obj.payload.kind = "object") => spResult = Success

\* C15: sendPayload never throws to its caller, whatever it is called with.
C15_NeverThrows ==
    spPc # "threw"

\* C16: a device field group_<n> routes every write to the mapped handle of
\* group n, any other device field to the endpoint of device 0x<device>; a
\* successful call for a group whose payload has a key with a value and a
\* converter writes to the group.
C16_GroupRoutedToGroup ==
    (spArg.kind = "object" /\ spArg.obj.device # Absent) =>
        /\ \A i \in 1..Len(writes) :
              writes[i].target =
                  IF IsDevice(spArg.obj.device)
                  THEN [kind |-> "endpoint", name |-> spArg.obj.device]
                  ELSE GroupId(GroupNumber(spArg.obj.device))
        /\ (/\ ~IsDevice(spArg.obj.device)
            /\ Quiescent
            /\ spResult = Success
            /\ \E i \in 1..Len(spArg.obj.payload.pairs) :
                  /\ spArg.obj.payload.pairs[i].value # JsNull
                  /\ Accepts(spArg.obj.payload.pairs[i].key))
           => writes # <<>>

\* what a step added to acks
AddedAcks ==
    SubSeq(acks', Len(acks) + 1, Len(acks'))

\* C19 (as claimed): states are acknowledged and sync instructions applied
\* only when a convertSet returned a result other than undefined and only
\* for a write that is not a group write, the acknowledgement first.  (The
\* steps after publishFromState returned are those of the converter writes.)
C19_AckOnlyNonGroupSuccess ==
    [][(acks' # acks /\ pfsPc = "returned") =>
          /\ pfsArgs.model # "group"
          /\ \E i \in 1..Len(items) :
                /\ items[i].pc = "convertSet" /\ items'[i].pc = "done"
                /\ AddedAcks[1] = [id |-> pfsArgs.stateList[i].id, kind |-> "state",
                                   value |-> pfsArgs.stateList[i].value]
      ]_vars

\* C19 (amended): for a converter write (once publishFromState has returned,
\* the forEach having acknowledged the option and composite states) acks
\* are written only by the step in which a convertSet
\* returned a result other than undefined: first the acknowledgement of the
\* written state, only with a state model and not for a group write, then
\* every sync instruction collected for the state, for a group write too;
\* when convertSet throws or returns undefined nothing is acknowledged.
C19_AckThenSyncOnSuccess ==
    [][/\ (acks' # acks /\ pfsPc = "returned") =>
            \E i \in 1..Len(items) :
                /\ items[i].pc = "convertSet" /\ items'[i].pc = "done"
                /\ SubSeq(acks', 1, Len(acks)) = acks
                /\ \A j \in 1..Len(AddedAcks) :
                      /\ AddedAcks[j].id = pfsArgs.stateList[i].id
                      /\ AddedAcks[j].kind = "state" =>
                            (j = 1 /\ pfsArgs.model # "group" /\ pfsArgs.stateModel # "none")
                /\ (pfsArgs.model # "group" /\ pfsArgs.stateModel # "none")
                      => AddedAcks[1].kind = "state"
                /\ pfsArgs.stateModel = "sync"
                      => AddedAcks[Len(AddedAcks)].kind = "sync"
       /\ \A i \in 1..Len(items) :
            (items[i].pc = "convertSet"
                /\ items'[i].pc \in {"failed", "rejected", "undefinedResult"})
               => acks' = acks
      ]_vars

\* C19 witness: a device write with sync instructions returned a result:
\* the state was acknowledged, then the sync instruction applied
C19_Witness ==
    /\ pfsArgs.model = "lamp"
    /\ pfsArgs.stateModel = "sync"
    /\ Len(items) = 1
    /\ items[1].pc = "done"
    /\ acks = << [id |-> pfsArgs.stateList[1].id, kind |-> "state", value |-> ValueOn],
                 [id |-> pfsArgs.stateList[1].id, kind |-> "sync", value |-> SyncValue] >>

\* C20: in one publishFromState call a failure of one ChangedState neither
\* prevents the write of another one nor escapes: every ChangedState that
\* has a converter and a target is written, and no callback's rejection goes
\* unhandled.
C20_IndependentAndContained ==
    /\ unhandled = 0
    /\ Quiescent =>
          \A i \in 1..Len(items) :
              items[i].pc \notin {"acknowledged", "noConverter", "noTarget"} =>
                  \E j \in 1..Len(writes) : writes[j].key = WriteKey(pfsArgs.stateList[i])

\* ======================= claims: onZigbeeEvent ===========================
\* the attributeReport converters on the message's cluster, in declaration order
AttributeReportConverters ==
    FilterFrom(fromZigbee, 1, cluster, "attributeReport")

\* a readResponse of a mapped device, with endpoint and data, for which no
\* converter is registered with type readResponse on the cluster but one
\* with type attributeReport
ReadResponseFallbackCase ==
    /\ type = "readResponse"
    /\ mapped # "none"
    /\ message.hasEndpoint /\ message.hasData
    /\ FilterFrom(fromZigbee, 1, cluster, "readResponse") = <<>>
    /\ AttributeReportConverters # <<>>

C18_EventNeverRejects ==
    zePromise # "rejected"

\* C21: when no converter of an event throws, every matched converter is
\* invoked, in declaration order: once processConverters has stopped taking
\* converters, by finishing or by waiting on a converter that yielded
\* nothing, the converters invoked are all the converters selected.
C21_AllConvertersRun ==
    convPc \in {"done", "unresolved"} => invoked = converters

\* C22: when a converter throws, processConverters rejects and onZigbeeEvent
\* (which has already returned) catches it: the converters invoked are the
\* ones up to the throwing one, the failure is logged as one error line
\* unless the cluster is '64529', when nothing is logged, and no converter of
\* that event is invoked afterwards; an event handled after a failed one
\* selects its converters as any other and, when none of them yields nothing
\* or throws, has every one of them invoked and every payload published.
C22_ThrowStopsAndIsLogged ==
    [][/\ convPc' = "failed" =>
            /\ zePromise' = "resolved"
            /\ invoked' # <<>>
            /\ invoked' = SubSeq(converters', 1, Len(invoked'))
            /\ zeLog' = IF cluster' = "64529" THEN <<>>
                        ELSE <<"Error while processing converters">>
       /\ convPc = "failed" =>
            \/ UNCHANGED <<invoked, published, zeLog>>
            \/ zePromise' = "pending" /\ invoked' = <<>> /\ failedBefore'
       /\ (failedBefore' /\ zePromise' = "resolved" /\ mapped' # "none") =>
            /\ converters' = SelectConverters(fromZigbee', cluster', type')
            /\ convPc' = "done" =>
                  /\ invoked' = converters'
                  /\ published' =
                        EventBody(type', cluster', message', mapped', fromZigbee').published
                            \o [i \in 1..Len(converters') |-> "payload"]
      ]_vars

\* C22 witness: the first of two matched converters threw on cluster
\* '64529': the second was not invoked and nothing was logged
C22_Witness ==
    /\ convPc = "failed"
    /\ cluster = "64529"
    /\ Len(converters) = 2
    /\ invoked = <<converters[1]>>
    /\ zeLog = <<>>

\* ======================= claims: callbacks of the protocol layer ==========
\* the handling of event e has begun and has not yet published
InHandling(e) ==
    evPc[e] \notin {"idle", "published"}

\* C23: the handling of one callback completes before the handling of the
\* next one begins: at most one event of the device is between its arrival
\* and its publication.
C23_OneCallbackAtATime ==
    Cardinality({e \in Events : InHandling(e)}) <= 1

\* event e is between the start of its deletion chain and the end of
\* syncDevStates
Recreating(e) ==
    evPc[e] \in {"deleting", "deleteObj", "updateDev", "syncDevStates", "suspended"}

\* C24: no event of the device publishes while the delete/recreate sequence
\* of an event is under way, and at most one event starts the sequence (its
\* deletion chain).
C24_AtomicDeleteRecreate ==
    [][/\ \A e \in Events :
            (evPc[e] = "resolved" /\ evPc'[e] = "published")
                => \A f \in Events : ~Recreating(f)
       /\ Cardinality({e \in Events : evFound'[e] = "differs"
                                          /\ evPc'[e] # "getStatesOf"}) <= 1
      ]_vars

\* ======================= claims: disconnect and failed connects ==========
\* C25: a disconnect signal in the Ready state sets the counter to 5 and the
\* connection flag to false and arms no timer before the plugins were
\* stopped; and the handler of the signal does not end without having armed
\* a reconnect timer.
C25_DisconnectSchedulesReconnect ==
    [][/\ (phase = "ready" /\ stopping' = stopping + 1) =>
            /\ reconnectCounter' = RECONNECT_CEILING
            /\ connection' = "false"
            /\ timers' = timers
       /\ (phase = "disconnected" /\ stopping = 1 /\ stopping' = 0) =>
            /\ Len(timers') = Len(timers) + 1
            /\ timers'[Len(timers')] = reconnectTimer'
      ]_vars

\* the timers pending before the step that were not consumed by it
Remaining(step) ==
    IF step.handler = "reconnectTimer" THEN Tail(timers) ELSE timers

\* C26: every failed connect attempt, a failed zbController.start() included,
\* is logged, sets the connection flag to false and arms a reconnect timer
\* exactly when the reconnect counter is greater than zero.
C26_FailedConnectIsHandled ==
    [][(FailedAttempt(lastStep') \/ lastStep'.handler = "startRejected") =>
            /\ \E i \in 1..Len(lastStep'.log) : lastStep'.log[i] = "Failed to start Zigbee"
            /\ connection' = "false"
            /\ IF reconnectCounter' > 0
               THEN timers' = Append(Remaining(lastStep'), reconnectTimer')
               ELSE timers' = Remaining(lastStep')
      ]_vars

\* ======================= claims: readiness ===============================
\* the step was recorded before position i of rdyOrder
Before(i, step, d) ==
    \E j \in 1..(i - 1) : rdyOrder[j] = [step |-> step, dev |-> d]

\* positions of rdyOrder at which the plugins' start was called
PluginStarts ==
    {i \in 1..Len(rdyOrder) : rdyOrder[i].step = "pluginStart"}

\* C27 (as claimed): when the plugins are started, the connection flag has
\* been published and the states of every known device that resolved to an
\* entity have been resynchronised.
C27_ResyncedBeforePlugins ==
    \A i \in PluginStarts :
        /\ rdyOrder[1].step = "connection"
        /\ \A d \in Known(known) :
              resync[d] # "noEntity" => Before(i, "synced", d)

\* C27 (amended): the connection flag is published first; then the known
\* devices are re-resolved one after another in the iterator's order and
\* updateDev is called for each one that resolved to an entity; the plugins
\* are started once, after the last device was resolved; the completion of
\* syncDevStates is not waited for.
C27_ResyncTriggeredBeforePlugins ==
    /\ rdyOrder # <<>> => rdyOrder[1].step = "connection"
    /\ Cardinality(PluginStarts) <= 1
    /\ \A i \in 1..Len(rdyOrder) :
          rdyOrder[i].step = "resolveEntity" =>
              \A d \in 1..(rdyOrder[i].dev - 1) : Before(i, "resolveEntity", d)
    /\ \A i \in PluginStarts :
          \A d \in Known(known) :
              /\ Before(i, "resolveEntity", d)
              /\ resync[d] # "noEntity" => Before(i, "updateDev", d)

\* C27 witness: two devices were resolved to entities; the first one was
\* resynchronised before the plugins' start was called, the second after it
C27_Witness ==
    /\ known = 2
    /\ rdyPc = "done"
    /\ rdyOrder = << [step |-> "connection", dev |-> 0],
                     [step |-> "resolveEntity", dev |-> 1],
                     [step |-> "updateDev", dev |-> 1],
                     [step |-> "synced", dev |-> 1],
                     [step |-> "resolveEntity", dev |-> 2],
                     [step |-> "updateDev", dev |-> 2],
                     [step |-> "pluginStart", dev |-> 0],
                     [step |-> "synced", dev |-> 2] >>

\* ======================= claims: option and composite states =============
\* the acknowledgements the forEach owes to the informational states of a list
RECURSIVE OptionAcks(_)
OptionAcks(list) ==
    IF list = <<>> THEN <<>>
    ELSE (IF Head(list).flag # "plain" THEN <<OptionAck(Head(list))>> ELSE <<>>)
            \o OptionAcks(Tail(list))

\* positions of the states of the call that are neither isOption nor
\* compositeState
PlainItems ==
    {i \in 1..Len(pfsArgs.stateList) : pfsArgs.stateList[i].flag = "plain"}

\* C28: once the forEach of publishFromState has run, every ChangedState
\* flagged isOption or compositeState has been acknowledged with its written
\* value, in list order and before any other acknowledgement, its callback
\* has returned without a converter, and it never reaches resolveEntity or
\* convertSet: the converter writes are at most those of the other states.
C28_OptionAcknowledgedNotWritten ==
    (pfsPc = "returned" /\ items # <<>>) =>
        /\ \A i \in 1..Len(items) :
              pfsArgs.stateList[i].flag # "plain" =>
                  items[i] = [pc |-> "acknowledged", converter |-> 0]
        /\ Len(acks) >= Len(OptionAcks(pfsArgs.stateList))
        /\ SubSeq(acks, 1, Len(OptionAcks(pfsArgs.stateList))) = OptionAcks(pfsArgs.stateList)
        /\ Len(writes) <= Cardinality(PlainItems)

\* C28 witness: a group write of a composite state and a plain state, with a
\* converter for the key of both: the composite state was acknowledged, the
\* plain one written
C28_Witness ==
    /\ pfsArgs.model = "group"
    /\ Len(items) = 2
    /\ pfsArgs.stateList[1].flag = "compositeState"
    /\ pfsArgs.stateList[2] = [id |-> "state", prop |-> Undefined, setattr |-> Undefined,
                               value |-> ValueOn, flag |-> "plain"]
    /\ items[1].pc = "acknowledged"
    /\ items[2].pc = "done"
    /\ Len(writes) = 1
    /\ acks = << [id |-> "state", kind |-> "option", value |-> ValueOn] >>

\* ======================= claims: link quality and battery ================
Published(name) ==
    \E i \in 1..Len(published) : published[i] = name

\* C29: an event whose message has an endpoint and data has, once
\* onZigbeeEvent has returned, published its link quality, the voltage and
\* the battery percentage when the extraction found a battery key, and
\* temperature and humidity when it found the measurement key, with or
\* without a converter for the event.
C29_LegacyValuesPublished ==
    (zePromise = "resolved" /\ message.hasEndpoint /\ message.hasData) =>
        /\ Published("linkquality")
        /\ IsBattKey(message, mapped) => Published("voltage") /\ Published("battery")
        /\ IsMessure(message, mapped) => Published("temperature") /\ Published("humidity")

\* ======================= claims: device_query read sequence ==============
\* the declared keys of the converters exposing convertGet, in declaration order
RECURSIVE AllGetKeys(_)
AllGetKeys(list) ==
    IF list = <<>> THEN <<>>
    ELSE (IF Head(list).convertGet THEN Head(list).key ELSE <<>>)
            \o AllGetKeys(Tail(list))

\* C30: when a read sequence has come to its end, the keys read are the
\* declared keys of every converter exposing convertGet, in declaration
\* order, each read from the first endpoint, whatever reads failed.
C30_EveryGetKeyRead ==
    getPc \in {"done", "threw"} =>
        /\ [i \in 1..Len(getReads) |-> getReads[i].key] = AllGetKeys(getList)
        /\ \A i \in 1..Len(getReads) : getReads[i].endpoint = FirstEndpoint

\* ======================= claims: resolution of publishFromState ==========
\* the device of the call resolves to nothing or to no mapped model, or the
\* mapped model has no toZigbee
Unresolvable ==
    \/ ~HasMappedModel(ResolveEntity(pfsArgs.deviceId))
    \/ ~hasToZigbee

\* C31: when the device cannot be resolved, has no mapped model or its model
\* has no toZigbee, publishFromState returns after its one resolveEntity
\* call (the second of the run when sendPayload made the call): no forEach
\* callback runs, no convertSet is invoked, no state is
\* acknowledged and resolveEntity is not called again.
C31_UnresolvableStops ==
    (Unresolvable /\ pfsPc # "idle") =>
        /\ items = <<>>
        /\ writes = <<>>
        /\ acks = <<>>
        /\ Len(resolveCalls) = (IF spArg = NoCall THEN 1 ELSE 2)
        /\ unhandled = 0

\* C31 witness: two states were written to a mapped device whose model has
\* no toZigbee: the call returned with one error line
C31_Witness ==
    /\ ~hasToZigbee
    /\ HasMappedModel(ResolveEntity(pfsArgs.deviceId))
    /\ Len(pfsArgs.stateList) = 2
    /\ pfsPc = "returned"
    /\ outLog = <<"No toZigbee in mapped model">>
    /\ writes = <<>>

\* ======================= claims: converter selection of a write ==========
\* the descriptor fields of a ChangedState the scan looks at
DescOf(sd) ==
    [id |-> sd.id, prop |-> sd.prop, setattr |-> sd.setattr]

\* positions of the converters the scan tests against the state and finds
\* matching: converters without convertSet are skipped before the test
MatchingKeyed(sd) ==
    {i \in 1..Len(toZigbee) :
        toZigbee[i].convertSet /\ toZigbee[i].hasKey /\ KeyMatches(toZigbee[i], DescOf(sd))}

\* positions of the converters the scan can select for the state
Eligible(sd) ==
    MatchingKeyed(sd) \cup {i \in 1..Len(toZigbee) : toZigbee[i].convertSet /\ ~toZigbee[i].hasKey}

NoConverterLines ==
    {j \in 1..Len(outLog) : outLog[j] = "No converter available"}

\* C32: a keyless converter is selected for a state only if it has
\* convertSet and no keyed converter matches the state (converters without
\* convertSet are skipped before the key test); a state with no eligible
\* converter gets no write and no acknowledgement, and its error is logged
\* and reported once, so that nothing is retried.
C32_KeylessFallbackOrError ==
    /\ \A i \in 1..Len(items) :
        LET sd   == pfsArgs.stateList[i]
            conv == items[i].converter
        IN  /\ (conv # 0 /\ ~toZigbee[conv].hasKey) =>
                    toZigbee[conv].convertSet /\ MatchingKeyed(sd) = {}
            /\ (~Informational(sd) /\ Eligible(sd) = {}) =>
                    /\ items[i].pc = "noConverter"
                    /\ \A w \in 1..Len(writes) : writes[w].key # WriteKey(sd)
                    /\ \A a \in 1..Len(acks) : acks[a].id = sd.id => acks[a].kind = "option"
    /\ Cardinality(NoConverterLines)
           = Cardinality({i \in 1..Len(items) : items[i].pc = "noConverter"})

\* C32 witness: of two states written to a device, `state` went to the
\* keyless converter (its only keyed match has no convertSet) and
\* `brightness` to the keyed one; the writes have settled
C32_Witness ==
    /\ Len(items) = 2
    /\ Len(toZigbee) = 3
    /\ pfsArgs.stateList[1].id = "state" /\ ~Informational(pfsArgs.stateList[1])
    /\ pfsArgs.stateList[2].id = "brightness"
    /\ items[1].converter = 3
    /\ items[2].converter = 2
    /\ Len(writes) = 2

\* C32 witness of the error case is the list without converters: one state,
\* one error line, nothing written
C32_NoConverterReached ==
    /\ Len(items) = 1
    /\ items[1].pc = "noConverter"
    /\ toZigbee # <<>>
    /\ outLog = <<"No converter available">>
    /\ writes = <<>> /\ acks = <<>>
    /\ pfsPc = "returned"

\* ======================= claims: synthetic states of sendPayload ==========
\* sendPayload has called publishFromState
Published_BySend ==
    spArg # NoCall /\ pfsPc # "idle"

\* the ChangedState the claim describes for one payload key
StateOfKey(pair, sd) ==
    /\ sd.id = pair.key
    /\ sd.prop = pair.key
    /\ sd.value = pair.value
    /\ sd.type = pair.value.type

\* the keys of the payload whose value is neither null nor undefined
RECURSIVE DefinedPairs(_)
DefinedPairs(pairs) ==
    IF pairs = <<>> THEN <<>>
    ELSE (IF Head(pairs).value = JsNull THEN <<>> ELSE <<Head(pairs)>>)
            \o DefinedPairs(Tail(pairs))

\* C33 (as claimed): sendPayload passes publishFromState exactly one
\* ChangedState per key of the payload object, in key order, with the key as
\* id and prop, the key's value as value and the value's runtime type as
\* type.
C33_OneStatePerKey ==
    Published_BySend =>
        LET pairs == spArg.obj.payload.pairs
        IN  /\ Len(pfsArgs.stateList) = Len(pairs)
            /\ \A i \in 1..Len(pairs) : StateOfKey(pairs[i], pfsArgs.stateList[i])

\* C33 (amended): the same for the keys whose value is not null; a key whose
\* value is null gets no ChangedState.
C33_OneStatePerDefinedKey ==
    Published_BySend =>
        LET pairs == DefinedPairs(spArg.obj.payload.pairs)
        IN  /\ Len(pfsArgs.stateList) = Len(pairs)
            /\ \A i \in 1..Len(pairs) : StateOfKey(pairs[i], pfsArgs.stateList[i])

\* C33 witness: {state: null, brightness: 5} became the one state
\* brightness, typed number
C33_Witness ==
    /\ Published_BySend
    /\ spArg.obj.payload.pairs = << [key |-> "state", value |-> JsNull],
                                    [key |-> "brightness", value |-> ValueNum] >>
    /\ Len(pfsArgs.stateList) = 1
    /\ pfsArgs.stateList[1].id = "brightness"
    /\ pfsArgs.stateList[1].type = "number"

\* ======================= claims: result of sendPayload ====================
\* the callbacks of the call that ended in an error: no converter, no
\* target endpoint, a convertSet that threw
Errored ==
    {i \in 1..Len(items) : items[i].pc \in {"noConverter", "noTarget", "failed", "rejected"}}

\* C34: sendPayload reports {success: true} only if no synthetic
\* ChangedState of the call ended in an error: with a key that has no
\* converter or whose convertSet throws, the result is not {success: true}.
C34_SuccessOnlyWithoutError ==
    (spArg # NoCall /\ spResult = Success) => Errored = {}

\* ======================= claims: the send_payload state ===================
\* keys of the JSON object the send_payload state carries
SentKeys ==
    {ssArgs.value.payload.pairs[i].key : i \in 1..Len(ssArgs.value.payload.pairs)}

\* the callback of the send_payload state has ended
SendSettled ==
    ssPc \in {"returned", "warned"}

\* C35: a send_payload state reaches sendPayload only as {device, payload:
\* its value parsed as JSON}, and its own callback runs no converter scan:
\* the only states scanned and written are those of the parsed payload. The
\* state is acknowledged exactly when sendPayload returned success, and a
\* value that is not JSON causes no sendPayload call, no write and no
\* acknowledgement.
C35_SendPayloadStateRouted ==
    /\ spArg # NoCall =>
          /\ ssArgs.value.kind = "json"
          /\ spArg = [kind |-> "object",
                      obj |-> [device |-> ssArgs.deviceId.name,
                               payload |-> ssArgs.value.payload]]
    /\ Len(items) <= Len(ssArgs.value.payload.pairs)
    /\ \A w \in 1..Len(writes) : writes[w].key \in SentKeys
    /\ \A a \in 1..Len(acks) : acks[a].id \in SentKeys
    /\ ssAcks # <<>> <=> (ssPc = "returned" /\ spPc = "returned" /\ spResult.success)
    /\ Len(ssAcks) <= 1
    /\ ssArgs.value.kind = "bad" =>
          spArg = NoCall /\ writes = <<>> /\ ssAcks = <<>> /\ resolveCalls = <<>>

\* C35 witness: the text {"state": "ON"} written to send_payload of a mapped
\* device was sent, written once and acknowledged
C35_Witness ==
    /\ ssArgs.deviceId = IeeeId("aabbcc")
    /\ ssArgs.value.payload.pairs = << [key |-> "state", value |-> ValueOn] >>
    /\ ssPc = "returned"
    /\ Len(ssAcks) = 1
    /\ Len(writes) = 1

\* a text that is not JSON ended in the warning
C35_BadJsonReached ==
    /\ ssArgs.value.kind = "bad"
    /\ ssPc = "warned"
    /\ ssLog = <<"does not parse as JSON Object">>

\* a valid text ended without acknowledgement because sendPayload failed
C35_FailureReached ==
    /\ ssArgs.value.kind = "json"
    /\ ssPc = "returned"
    /\ spPc = "returned"
    /\ ~spResult.success
    /\ ssAcks = <<>>

\* ======================= claims: reconnect counter ========================
\* C36: the reconnect attempt counter is never negative, whatever the
\* sequence of connect failures, timer expiries, ready and disconnect
\* signals.
C36_CounterNeverNegative ==
    reconnectCounter >= 0

\* ======================= claims: cool-down of a device query ==============
\* C37: whatever the outcome of the read sequence, once it has come to its
\* end the cool-down timer that removes the device from query_device_block
\* is armed, so that the device does not stay blocked.
C37_EndOfSequenceArmsTimer ==
    getPc \in {"done", "threw"} => getArmed

\* ======================= claims: termination of checkIfModelUpdate ========
\* C38: every inbound event that awaits checkIfModelUpdate eventually goes
\* on to publish its link quality and raw event, also when reading the
\* device's states or deleting one state entry fails.
C38_EventEventuallyPublishes ==
    \A e \in Events : (evPc[e] = "getObject") ~> (evPc[e] = "published")

\* ======================= claims: onUnload ================================
\* a step in which a reconnect timer expires and calls doConnect
ConnectAttempt ==
    /\ timers # <<>>
    /\ lastStep'.handler = "reconnectTimer"
    /\ <<lastStep, reconnectCounter, callbacks, timers>>'
           # <<lastStep, reconnectCounter, callbacks, timers>>

\* C39: once onUnload has run to its end no reconnect timer is pending and
\* no reconnect timer expires into a further doConnect, whatever connect
\* failures and disconnect signals came before.
C39_NoReconnectAfterUnload ==
    [][unloadPc' = "done" =>
          /\ timers' = <<>>
          /\ unloadPc = "done" => ~ConnectAttempt]_vars

\* C40: onUnload calls its completion callback exactly once on every path,
\* and when a controller exists it has called zbController.stop() by then,
\* also when the stop method of a plugin threw.
C40_CallbackAndControllerStop ==
    [][(unloadPc # "done" /\ unloadPc' = "done") =>
          /\ unloadCallbacks' = 1
          /\ HasController(phase) => controllerStops' = 1]_vars

=============================================================================
